---- MODULE Spec2Model ----
(***************************************************************************)
(* Verification model of the synkio backend core:                          *)
(*   - the escrow ledger: EscrowController / TransactionController         *)
(*     handlers, the Transaction mirror document and the on-chain escrow   *)
(*     contract they drive through BlockchainService.executeTransaction;   *)
(*   - the risk aggregator: SafetyService and DDxyzService.                *)
(* Every handler is split at its awaits, so that other handlers and the    *)
(* chain may run in between, as the Node event loop allows.                *)
(***************************************************************************)
EXTENDS Integers, Sequences, FiniteSets, TLC

(***************************************************************************)
(* Bounds of the model.                                                    *)
(***************************************************************************)
MaxEscrow == 1
MaxTx == 3
MaxTimeline == 3
MaxInFlight == 2
MaxMilestones == 2
MaxCalls == 2
MaxCandidates == 3
MaxBalance == 40
MaxSockets == 3

VARIABLES
  chain,      \* on-chain escrow record: escrow id -> status ("NONE" = not created)
  released,   \* on-chain milestones: escrow id -> set of released milestone indexes
  milestones, \* on-chain milestones: escrow id -> number of separately releasable parts
  txs,        \* submitted transactions, the hash of a transaction is its index
  mirror,     \* Transaction collection: escrow id -> mirror document
  reqs,       \* handler invocations suspended at an await
  wrote,      \* history: hashes of the transactions whose handler updated a mirror
  last,       \* history: the handler step taken last and what it returned
  assessment, \* the SafetyResult the last single safety check returned, with its inputs
  ets,        \* the enhancedTransactionSafety call in progress, and its decision
  probe,      \* the last application of a decision helper to a bare risk level
  listing,    \* what the last enhancedProductListing call returned
  providerConfig, \* BlockchainService.providerConfig of the connector
  provider,   \* BlockchainService.provider: the provider instance in use
  wallet,     \* BlockchainService.wallet: the provider instance the signer is bound to
  contract,   \* BlockchainService.contract: the provider instance its signer is bound to
  providerCache, \* BlockchainService.providerCache: cache key -> provider instance (0 = none)
  instances,  \* the provider instances constructed so far, each with the key of its configuration
  calls,      \* connector calls suspended at an await
  done,       \* history: the connector call that completed last
  gw,         \* ledger requests on their way through executeTransaction
  encryptionKey, \* WalletService.encryptionKey: the master key of the process
  credentials, \* the encryptedPrivateKey values createWallet has returned
  vres,       \* history: the key vault operation performed last, and its result
  log,        \* what the key vault operation performed last wrote to the logger
  cwf,        \* the createWithFallback call in progress, and how it ended
  bal,        \* the BlockchainService.getBalance call in progress, and how it ended
  mcp,        \* the McpIntegrationService.enhancedTransactionSafety call in progress
  cmp,        \* the decision helpers of both services applied to the same inputs
  connectedClients, \* WebSocketService.connectedClients: the ids of the connected sockets
  socketMetadata,   \* WebSocketService.socketMetadata: socket id -> metadata
  userSockets,      \* WebSocketService.userSockets: user email -> set of socket ids
  lastSocket        \* the number of connections accepted so far (the last socket id)

ledgerVars == <<chain, released, milestones, txs, mirror, reqs, wrote, last>>

riskVars == <<assessment, ets, probe, listing>>

connVars == <<providerConfig, provider, wallet, contract, providerCache, instances, calls, done>>

vaultVars == <<encryptionKey, credentials, vres, log>>

fallbackVars == <<cwf>>

balanceVars == <<bal>>

mcpVars == <<mcp, cmp>>

socketVars == <<connectedClients, socketMetadata, userSockets, lastSocket>>

moreVars == <<fallbackVars, balanceVars, mcpVars, socketVars>>

nonFallbackVars == <<ledgerVars, riskVars, gw, vaultVars, balanceVars, mcpVars, socketVars>>

nonBalanceVars == <<ledgerVars, riskVars, gw, vaultVars, fallbackVars, mcpVars, socketVars>>

nonMcpVars ==
  <<ledgerVars, riskVars, connVars, gw, vaultVars, fallbackVars, balanceVars, socketVars>>

nonSocketVars ==
  <<ledgerVars, riskVars, connVars, gw, vaultVars, fallbackVars, balanceVars, mcpVars>>

nonLedgerVars == <<riskVars, connVars, gw, vaultVars, moreVars>>

nonRiskVars == <<ledgerVars, connVars, gw, vaultVars, moreVars>>

nonConnVars == <<ledgerVars, riskVars, gw, vaultVars, moreVars>>

nonGatewayVars == <<ledgerVars, riskVars, connVars, vaultVars, moreVars>>

nonVaultVars == <<ledgerVars, riskVars, connVars, gw, moreVars>>

vars == <<chain, released, milestones, txs, mirror, reqs, wrote, last, assessment, ets, probe,
          listing, providerConfig, provider, wallet, contract, providerCache, instances,
          calls, done, gw, encryptionKey, credentials, vres, log, cwf, bal,
          mcp, cmp, connectedClients, socketMetadata, userSockets, lastSocket>>

EscrowIds == 1..MaxEscrow

ChainStatuses == {"CREATED", "FUNDED", "COMPLETED", "DISPUTED", "CANCELLED", "EXPIRED"}

\* TransactionSchema.status enum
MirrorStatuses == {"pending", "funded", "completed", "disputed", "cancelled", "expired"}

\* What a client may send as body.status to updateTransactionStatus: the
\* route has no validation and findOneAndUpdate runs no schema validators.
\* "none" is a body without a status.
StatusInputs == {"funded", "completed", "resolved", "none"}

\* Optional fields of CreateEscrowDto
OptionalFields == {"buyerEmail", "sellerEmail", "metadata", "conversationContext"}

\* Shapes of the receipt of a mined createEscrow transaction
ReceiptKinds == {"noLogs", "noEvent", "zeroId", "event"}

Winners == {"seller", "buyer"}

NoDoc == [transactionId |-> 0, status |-> "none", timeline |-> <<>>]

NoResult == [op |-> "none", e |-> 0, tx |-> 0, outcome |-> "none", read |-> "none"]

Result(op, e, tx, outcome, read) ==
  [op |-> op, e |-> e, tx |-> tx, outcome |-> outcome, read |-> read]

----------------------------------------------------------------------------
(***************************************************************************)
(* The on-chain escrow and dispute contracts (external collaborators).     *)
(***************************************************************************)

\* First escrow id the contract has not assigned yet (0 when none is left)
NextEscrowId ==
  IF \E e \in EscrowIds : chain[e] = "NONE"
  THEN CHOOSE e \in EscrowIds : chain[e] = "NONE" /\ \A f \in EscrowIds : f < e => chain[f] # "NONE"
  ELSE 0

\* createEscrow transactions that hold, or may still get, an escrow id
Creations == {h \in 1..Len(txs) : txs[h].method = "createEscrow" /\ txs[h].st # "reverted"}

\* Would the contract accept this call in the current chain state?
ContractAccepts(method, e, arg) ==
  CASE method = "createEscrow" -> Cardinality(Creations) < MaxEscrow
    [] e \notin EscrowIds -> FALSE
    [] method = "releasePayment" ->
         chain[e] = "FUNDED" /\ arg < milestones[e] /\ arg \notin released[e]
    [] method = "fileDispute" -> chain[e] = "FUNDED"
    [] method = "cancelEscrow" -> chain[e] \in {"CREATED", "FUNDED"}
    [] method = "resolveDispute" -> chain[e] = "DISPUTED"
    [] OTHER -> FALSE

\* Chain status after the contract has executed an accepted call
ContractEffect(method, e, arg) ==
  CASE method = "releasePayment" ->
         IF released[e] \cup {arg} = 0..(milestones[e] - 1) THEN "COMPLETED" ELSE "FUNDED"
    [] method = "fileDispute" -> "DISPUTED"
    [] method = "cancelEscrow" -> "CANCELLED"
    [] method = "resolveDispute" -> IF arg = "seller" THEN "COMPLETED" ELSE "CANCELLED"
    [] OTHER -> chain[e]

----------------------------------------------------------------------------
(***************************************************************************)
(* BlockchainService.executeTransaction: one signed submission.  It either *)
(* throws (the error is rethrown to the handler) or returns the response   *)
(* of the submitted, not yet mined, transaction.                           *)
(***************************************************************************)
NewTx(method, e, arg) ==
  [method |-> method, e |-> e, arg |-> arg, st |-> "submitted", receipt |-> "none"]

CanSubmit == Len(txs) < MaxTx /\ Cardinality(reqs) < MaxInFlight

\* The mongoose save() of createEscrow runs the schema validators: the
\* required paths of TransactionSchema must be present and non-empty.
SaveValid(opt) ==
  /\ "buyerEmail" \in opt
  /\ "sellerEmail" \in opt
  /\ "metadata" \in opt
  /\ "conversationContext" \in opt

----------------------------------------------------------------------------
(***************************************************************************)
(* Transaction.findOneAndUpdate({escrowId}, {status, $push: {timeline}}):  *)
(* the document of that escrow, when there is one, gets the status and one *)
(* more timeline entry; no document matched means no write.  An undefined  *)
(* status is stripped from the update: the document keeps its status and   *)
(* the pushed entry has none.                                              *)
(***************************************************************************)
findOneAndUpdate(e, status) ==
  IF e \in EscrowIds /\ mirror[e] # NoDoc
  THEN [mirror EXCEPT ![e] = [@ EXCEPT !.status = IF status = "none" THEN @ ELSE status,
                                       !.timeline = Append(@, status)]]
  ELSE mirror

HasRoom(e) == e \in EscrowIds => Len(mirror[e].timeline) < MaxTimeline

\* First await of a lifecycle handler: the service method submits the call.
\* Either the submission throws and the handler ends with that error, or the
\* handler resumes later with the transaction response.
Submit(op, method, e, arg) ==
  /\ CanSubmit
  /\ \/ /\ ContractAccepts(method, e, arg)
        /\ txs' = Append(txs, NewTx(method, e, arg))
        /\ reqs' = reqs \cup {[op |-> op, e |-> e, tx |-> Len(txs) + 1, opt |-> {}]}
        /\ last' = NoResult
     \/ /\ UNCHANGED <<txs, reqs>>
        /\ last' = Result(op, 0, 0, "submitError", "none")
  /\ UNCHANGED <<chain, released, milestones, mirror, wrote>>
  /\ UNCHANGED nonLedgerVars

\* Second await of a lifecycle handler: the mirror update, issued as soon as
\* the transaction response is there, then the 200 response.
UpdateMirror(r, status) ==
  /\ HasRoom(r.e)
  /\ mirror' = findOneAndUpdate(r.e, status)
  /\ wrote' = IF mirror' # mirror THEN wrote \cup {r.tx} ELSE wrote
  /\ reqs' = reqs \ {r}
  /\ last' = Result(r.op, r.e, 0, "ok", "none")
  /\ UNCHANGED <<chain, released, milestones, txs>>
  /\ UNCHANGED nonLedgerVars

----------------------------------------------------------------------------
(***************************************************************************)
(* EscrowController                                                        *)
(***************************************************************************)

\* createEscrow up to `await tx.wait()`.  ms is the number of parts the escrow
\* is released in: the milestones of metadata.milestones, or 1 without them.
createEscrowSubmit(opt, ms) ==
  /\ CanSubmit
  /\ ms > 1 => "metadata" \in opt
  /\ \/ /\ ContractAccepts("createEscrow", 0, ms)
        /\ txs' = Append(txs, NewTx("createEscrow", 0, ms))
        /\ reqs' = reqs \cup {[op |-> "createEscrow", e |-> 0, tx |-> Len(txs) + 1, opt |-> opt]}
        /\ last' = NoResult
     \/ /\ UNCHANGED <<txs, reqs>>
        /\ last' = Result("createEscrow", 0, 0, "submitError", "none")
  /\ UNCHANGED <<chain, released, milestones, mirror, wrote>>
  /\ UNCHANGED nonLedgerVars

\* createEscrow from the receipt on: id extraction, then Transaction.save()
createEscrowFinish(r) ==
  /\ r \in reqs /\ r.op = "createEscrow"
  /\ txs[r.tx].st # "submitted"
  /\ reqs' = reqs \ {r}
  /\ LET t == txs[r.tx] IN
       IF t.st = "reverted"
       THEN /\ last' = Result("createEscrow", 0, r.tx, "waitError", "none")
            /\ UNCHANGED mirror
       ELSE IF t.receipt # "event"
       THEN /\ last' = Result("createEscrow", 0, r.tx, "idExtractionError", "none")
            /\ UNCHANGED mirror
       ELSE IF ~SaveValid(r.opt)
       THEN /\ last' = Result("createEscrow", t.e, r.tx, "validationError", "none")
            /\ UNCHANGED mirror
       ELSE /\ mirror' = [mirror EXCEPT ![t.e] =
                            [transactionId |-> r.tx, status |-> "pending",
                             timeline |-> <<"pending">>]]
            /\ last' = Result("createEscrow", t.e, r.tx, "created", "none")
  /\ UNCHANGED <<chain, released, milestones, txs, wrote>>
  /\ UNCHANGED nonLedgerVars

releaseEscrowSubmit(e, idx) == Submit("releaseEscrow", "releasePayment", e, idx)

releaseEscrowUpdate(r) ==
  /\ r \in reqs /\ r.op = "releaseEscrow"
  /\ UpdateMirror(r, "completed")

refundEscrowSubmit(e) == Submit("refundEscrow", "cancelEscrow", e, 0)

refundEscrowUpdate(r) ==
  /\ r \in reqs /\ r.op = "refundEscrow"
  /\ UpdateMirror(r, "cancelled")

disputeEscrowSubmit(e) == Submit("disputeEscrow", "fileDispute", e, 0)

disputeEscrowUpdate(r) ==
  /\ r \in reqs /\ r.op = "disputeEscrow"
  /\ UpdateMirror(r, "disputed")

\* getEscrow: one view call, the record read is the response
getEscrow(e) ==
  /\ chain[e] # "NONE"
  /\ last' = Result("getEscrow", e, 0, "ok", chain[e])
  /\ UNCHANGED <<chain, released, milestones, txs, mirror, reqs, wrote>>
  /\ UNCHANGED nonLedgerVars

\* resolveDispute: one submission, the response is sent without a mirror write
resolveDispute(e, winner) ==
  /\ Len(txs) < MaxTx
  /\ \/ /\ ContractAccepts("resolveDispute", e, winner)
        /\ txs' = Append(txs, NewTx("resolveDispute", e, winner))
        /\ last' = Result("resolveDispute", e, 0, "ok", "none")
     \/ /\ UNCHANGED txs
        /\ last' = Result("resolveDispute", 0, 0, "submitError", "none")
  /\ UNCHANGED <<chain, released, milestones, mirror, reqs, wrote>>
  /\ UNCHANGED nonLedgerVars

(***************************************************************************)
(* TransactionController.updateTransactionStatus                           *)
(***************************************************************************)
updateTransactionStatus(h, status) ==
  /\ IF \E e \in EscrowIds : mirror[e].transactionId = h
     THEN LET e == CHOOSE f \in EscrowIds : mirror[f].transactionId = h IN
            /\ HasRoom(e)
            /\ mirror' = findOneAndUpdate(e, status)
            /\ last' = Result("updateTransactionStatus", e, 0, "ok", "none")
     ELSE /\ UNCHANGED mirror
          /\ last' = Result("updateTransactionStatus", 0, 0, "notFound", "none")
  /\ UNCHANGED <<chain, released, milestones, txs, reqs, wrote>>
  /\ UNCHANGED nonLedgerVars

----------------------------------------------------------------------------
(***************************************************************************)
(* The chain: mining of a submitted transaction, funding by the buyer and  *)
(* expiry, none of which the backend takes part in.                        *)
(***************************************************************************)
mine(h) ==
  /\ h \in 1..Len(txs)
  /\ txs[h].st = "submitted"
  /\ LET t == txs[h] IN
       IF t.method = "createEscrow"
       THEN \/ /\ NextEscrowId # 0
               /\ \E k \in ReceiptKinds :
                    txs' = [txs EXCEPT ![h] = [t EXCEPT !.st = "success",
                                                         !.e = NextEscrowId,
                                                         !.receipt = k]]
               /\ chain' = [chain EXCEPT ![NextEscrowId] = "CREATED"]
               /\ milestones' = [milestones EXCEPT ![NextEscrowId] = t.arg]
               /\ UNCHANGED released
            \/ /\ txs' = [txs EXCEPT ![h] = [t EXCEPT !.st = "reverted"]]
               /\ UNCHANGED <<chain, released, milestones>>
       ELSE IF ContractAccepts(t.method, t.e, t.arg)
       THEN /\ txs' = [txs EXCEPT ![h] = [t EXCEPT !.st = "success"]]
            /\ chain' = [chain EXCEPT ![t.e] = ContractEffect(t.method, t.e, t.arg)]
            /\ released' = IF t.method = "releasePayment"
                           THEN [released EXCEPT ![t.e] = @ \cup {t.arg}]
                           ELSE released
            /\ UNCHANGED milestones
       ELSE /\ txs' = [txs EXCEPT ![h] = [t EXCEPT !.st = "reverted"]]
            /\ UNCHANGED <<chain, released, milestones>>
  /\ last' = NoResult
  /\ UNCHANGED <<mirror, reqs, wrote>>
  /\ UNCHANGED nonLedgerVars

chainFund(e) ==
  /\ chain[e] = "CREATED"
  /\ chain' = [chain EXCEPT ![e] = "FUNDED"]
  /\ last' = NoResult
  /\ UNCHANGED <<released, milestones, txs, mirror, reqs, wrote>>
  /\ UNCHANGED nonLedgerVars

chainExpire(e) ==
  /\ chain[e] = "FUNDED"
  /\ chain' = [chain EXCEPT ![e] = "EXPIRED"]
  /\ last' = NoResult
  /\ UNCHANGED <<released, milestones, txs, mirror, reqs, wrote>>
  /\ UNCHANGED nonLedgerVars

----------------------------------------------------------------------------
(***************************************************************************)
(* Risk signal provider: DDxyzService.  A call returns the response body   *)
(* or null; it returns null without calling when no API key is configured  *)
(* and when the HTTP call fails or times out.                              *)
(***************************************************************************)
Levels == {"low", "medium", "high", "critical"}

\* riskLevel of a provider response: "none" when the field is absent
LevelInputs == Levels \cup {"none", "unknown"}

\* riskScore values a provider may send (used when hasScore is TRUE)
RiskScores == {-10, 0, 20, 21, 40, 41, 70, 71, 100, 110}

Chains == {"ethereum", "base", "solana"}

Response(kind, hasScore, riskScore, riskLevel, reasonsOk) ==
  [kind |-> kind, hasScore |-> hasScore, riskScore |-> riskScore,
   riskLevel |-> riskLevel, reasonsOk |-> reasonsOk]

Null == Response("null", FALSE, 0, "none", TRUE)

\* What the HTTP call may do: fail, time out, or answer with a body
HttpOutcomes ==
  {Response(k, FALSE, 0, "none", TRUE) : k \in {"error", "timeout"}}
  \cup {Response("data", TRUE, n, l, ok) : n \in RiskScores, l \in LevelInputs, ok \in BOOLEAN}
  \cup {Response("data", FALSE, 0, l, ok) : l \in LevelInputs, ok \in BOOLEAN}

\* getThreatRisk, getContractRisk and getUrlRisk share this shape
getThreatRisk(apiKey, http) ==
  IF ~apiKey THEN Null
  ELSE IF http.kind # "data" THEN Null
  ELSE http

----------------------------------------------------------------------------
(***************************************************************************)
(* SafetyService                                                           *)
(***************************************************************************)
Min(a, b) == IF a < b THEN a ELSE b

Max(a, b) == IF a > b THEN a ELSE b

SafetyResult(riskLevel, score, providers) ==
  [riskLevel |-> riskLevel, score |-> score, providers |-> providers]

riskDeductions(riskLevel) ==
  CASE riskLevel = "low" -> 0
    [] riskLevel = "medium" -> 20
    [] riskLevel = "high" -> 50
    [] riskLevel = "critical" -> 80
    [] OTHER -> 0

\* calculateRiskScore with the categorical level looked up first, and the
\* numeric score used only for a response without a level
calculateRiskScore_levelFirst(ddxyzData) ==
  LET score ==
        IF ddxyzData = Null THEN 100
        ELSE IF ddxyzData.riskLevel # "none" THEN 100 - riskDeductions(ddxyzData.riskLevel)
        ELSE IF ddxyzData.hasScore THEN 100 - ddxyzData.riskScore
        ELSE 100
  IN Max(0, Min(100, score))

\* blockRaderData is null at the only call site, so its branch never runs
calculateRiskScore(ddxyzData) ==
  LET score ==
        IF ddxyzData = Null THEN 100
        ELSE IF ddxyzData.hasScore THEN 100 - ddxyzData.riskScore
        ELSE IF ddxyzData.riskLevel # "none" THEN 100 - riskDeductions(ddxyzData.riskLevel)
        ELSE 100
  IN Max(0, Min(100, score))

mapRiskLevel(score) ==
  IF score >= 80 THEN "low"
  ELSE IF score >= 60 THEN "medium"
  ELSE IF score >= 30 THEN "high"
  ELSE "critical"

getFallbackSafety == SafetyResult("medium", 50, <<"fallback">>)

\* The catch block of checkWalletSafety returns this literal
walletFallback == SafetyResult("medium", 50, <<"fallback">>)

\* checkWalletSafety: only ethereum and base are sent to the provider.  The
\* try block throws when generateReasons spreads a flaggedReasons value that
\* is not iterable (reasonsOk = FALSE).
checkWalletSafety(chainName, apiKey, http) ==
  LET threatData == IF chainName \in {"ethereum", "base"} THEN getThreatRisk(apiKey, http) ELSE Null
      providers == IF threatData # Null THEN <<"dd.xyz">> ELSE <<>>
      riskScore == calculateRiskScore(threatData)
  IN IF threatData # Null /\ ~threatData.reasonsOk
     THEN walletFallback
     ELSE SafetyResult(mapRiskLevel(riskScore), riskScore, providers)

\* checkContractSafety: level and score are taken from the response as they
\* are, `||` replacing an absent level by low and an absent or zero score by 85
checkContractSafety(apiKey, http) ==
  LET contractRisk == getThreatRisk(apiKey, http) IN
    IF contractRisk # Null
    THEN SafetyResult(IF contractRisk.riskLevel # "none" THEN contractRisk.riskLevel ELSE "low",
                      IF contractRisk.hasScore /\ contractRisk.riskScore # 0
                      THEN contractRisk.riskScore ELSE 85,
                      <<"dd.xyz">>)
    ELSE SafetyResult("low", 85, <<"dd.xyz">>)

\* checkUrlSafety: as checkContractSafety, with 95 for 85
checkUrlSafety(apiKey, http) ==
  LET urlRisk == getThreatRisk(apiKey, http) IN
    IF urlRisk # Null
    THEN SafetyResult(IF urlRisk.riskLevel # "none" THEN urlRisk.riskLevel ELSE "low",
                      IF urlRisk.hasScore /\ urlRisk.riskScore # 0
                      THEN urlRisk.riskScore ELSE 95,
                      <<"dd.xyz">>)
    ELSE SafetyResult("low", 95, <<"dd.xyz">>)

\* checkTransactionSafety: the wallet check of the recipient; a missing chain
\* makes chain.toLowerCase() throw, which the catch turns into the fallback
checkTransactionSafety(chainName, apiKey, http) ==
  IF chainName = "undefined" THEN getFallbackSafety
  ELSE checkWalletSafety(chainName, apiKey, http)

getRiskPriority(riskLevel) ==
  CASE riskLevel = "low" -> 1
    [] riskLevel = "medium" -> 2
    [] riskLevel = "high" -> 3
    [] riskLevel = "critical" -> 4
    [] OTHER -> 1

\* reduceRisk with >= for >: the last of several equal highest wins
RECURSIVE reduceRisk_lastWins(_, _, _)
reduceRisk_lastWins(risks, i, max) ==
  IF i > Len(risks) THEN max
  ELSE reduceRisk_lastWins(risks, i + 1,
                  IF getRiskPriority(risks[i].riskLevel) >= getRiskPriority(risks[max].riskLevel)
                  THEN i ELSE max)

\* risks.reduce((max, current) => priority(current) > priority(max) ? current : max):
\* the index of the element the reduction ends with
RECURSIVE reduceRisk(_, _, _)
reduceRisk(risks, i, max) ==
  IF i > Len(risks) THEN max
  ELSE reduceRisk(risks, i + 1,
                  IF getRiskPriority(risks[i].riskLevel) > getRiskPriority(risks[max].riskLevel)
                  THEN i ELSE max)

calculateOverallRisk(risks) == reduceRisk(risks, 2, 1)

\* determinePaymentMethod with the default of the switch returning direct
determinePaymentMethod_defaultDirect(riskLevel) ==
  CASE riskLevel = "critical" -> "blocked"
    [] riskLevel = "high" -> "escrow"
    [] riskLevel = "medium" -> "escrow"
    [] OTHER -> "direct"

determinePaymentMethod(riskLevel) ==
  CASE riskLevel = "critical" -> "blocked"
    [] riskLevel = "high" -> "escrow"
    [] riskLevel = "medium" -> "escrow"
    [] riskLevel = "low" -> "direct"
    [] OTHER -> "escrow"

Decision(isApproved, safetyData, requiresEscrow, paymentMethod, overall) ==
  [isApproved |-> isApproved, safetyData |-> safetyData,
   requiresEscrow |-> requiresEscrow, paymentMethod |-> paymentMethod,
   overall |-> overall]

getFallbackTransactionSafety ==
  Decision(TRUE, SafetyResult("medium", 50, <<"fallback">>), TRUE, "escrow", 0)

NoSafety == SafetyResult("none", 0, <<>>)

NoDecision == Decision(FALSE, NoSafety, FALSE, "none", 0)

NoAssessment == [fn |-> "none", unavailable |-> FALSE, data |-> Null, res |-> NoSafety]

NoProbe == [riskLevel |-> "none", paymentMethod |-> "none"]

NoListing == [riskLevel |-> "none", isApproved |-> FALSE,
              listingFees |-> [basic |-> 0, escrowRequired |-> FALSE, securityDeposit |-> 0]]

EtsIdle ==
  [pc |-> "idle", chain |-> "none", apiKey |-> FALSE, issued |-> {}, nulls |-> {},
   buyer |-> NoSafety, vendor |-> NoSafety, transaction |-> NoSafety,
   decision |-> NoDecision]

\* Did the provider call of a wallet check come back empty-handed?
Unavailable(chainName, apiKey, http) ==
  chainName \in {"ethereum", "base"} /\ getThreatRisk(apiKey, http) = Null

----------------------------------------------------------------------------
(***************************************************************************)
(* Calls of the single safety checks.  `unavailable` records that the      *)
(* provider call of the check returned null.  assessment, probe and ets    *)
(* record one call at a time: the calls share no state, so nothing is lost *)
(* by not recording them side by side.                                     *)
(***************************************************************************)
CallCheckWalletSafety(c, apiKey, http) ==
  /\ ets.pc = "idle"
  /\ assessment' = [fn |-> "checkWalletSafety",
                    unavailable |-> Unavailable(c, apiKey, http),
                    data |-> IF c \in {"ethereum", "base"} THEN getThreatRisk(apiKey, http) ELSE Null,
                    res |-> checkWalletSafety(c, apiKey, http)]
  /\ probe' = NoProbe
  /\ listing' = NoListing
  /\ UNCHANGED ets
  /\ UNCHANGED nonRiskVars

CallCheckContractSafety(apiKey, http) ==
  /\ ets.pc = "idle"
  /\ assessment' = [fn |-> "checkContractSafety",
                    unavailable |-> getThreatRisk(apiKey, http) = Null,
                    data |-> getThreatRisk(apiKey, http),
                    res |-> checkContractSafety(apiKey, http)]
  /\ probe' = NoProbe
  /\ listing' = NoListing
  /\ UNCHANGED ets
  /\ UNCHANGED nonRiskVars

CallCheckUrlSafety(apiKey, http) ==
  /\ ets.pc = "idle"
  /\ assessment' = [fn |-> "checkUrlSafety",
                    unavailable |-> getThreatRisk(apiKey, http) = Null,
                    data |-> getThreatRisk(apiKey, http),
                    res |-> checkUrlSafety(apiKey, http)]
  /\ probe' = NoProbe
  /\ listing' = NoListing
  /\ UNCHANGED ets
  /\ UNCHANGED nonRiskVars

CallCheckTransactionSafety(c, apiKey, http) ==
  /\ ets.pc = "idle"
  /\ assessment' = [fn |-> "checkTransactionSafety",
                    unavailable |-> Unavailable(c, apiKey, http),
                    data |-> IF c \in {"ethereum", "base"} THEN getThreatRisk(apiKey, http) ELSE Null,
                    res |-> checkTransactionSafety(c, apiKey, http)]
  /\ probe' = NoProbe
  /\ listing' = NoListing
  /\ UNCHANGED ets
  /\ UNCHANGED nonRiskVars

\* determinePaymentMethod applied to a bare risk level
CallDeterminePaymentMethod(riskLevel) ==
  /\ ets.pc = "idle"
  /\ probe' = [riskLevel |-> riskLevel, paymentMethod |-> determinePaymentMethod(riskLevel)]
  /\ assessment' = NoAssessment
  /\ listing' = NoListing
  /\ UNCHANGED ets
  /\ UNCHANGED nonRiskVars

(***************************************************************************)
(* SafetyService.enhancedTransactionSafety, split at its awaits.           *)
(***************************************************************************)

\* Entry: chain.toLowerCase() throws on a missing chain and the catch returns
\* the fallback decision; otherwise Promise.all issues the two wallet checks.
etsStart(c, apiKey) ==
  /\ ets.pc = "idle"
  /\ IF c = "undefined"
     THEN ets' = [ets EXCEPT !.pc = "done", !.decision = getFallbackTransactionSafety]
     ELSE ets' = [ets EXCEPT !.pc = "wallets", !.chain = c, !.apiKey = apiKey,
                             !.issued = {"buyer", "vendor"}]
  /\ assessment' = NoAssessment
  /\ probe' = NoProbe
  /\ listing' = NoListing
  /\ UNCHANGED nonRiskVars

\* One of the two wallet checks completes; once both have, Promise.all
\* resolves and the transaction check is issued.
etsWalletDone(who, http) ==
  /\ ets.pc = "wallets"
  /\ who \in {"buyer", "vendor"}
  /\ ets[who] = NoSafety
  /\ LET other == IF who = "buyer" THEN "vendor" ELSE "buyer"
         both == ets[other] # NoSafety
     IN ets' = [ets EXCEPT ![who] = checkWalletSafety(ets.chain, ets.apiKey, http),
                           !.nulls = IF Unavailable(ets.chain, ets.apiKey, http)
                                     THEN @ \cup {who} ELSE @,
                           !.issued = IF both THEN @ \cup {"transaction"} ELSE @,
                           !.pc = IF both THEN "transaction" ELSE "wallets"]
  /\ UNCHANGED <<assessment, probe, listing>>
  /\ UNCHANGED nonRiskVars

\* The transaction check completes and the decision is computed and returned
etsTransactionDone(http) ==
  /\ ets.pc = "transaction"
  /\ LET transactionSafety == checkTransactionSafety(ets.chain, ets.apiKey, http)
         risks == <<ets.buyer, ets.vendor, transactionSafety>>
         overall == calculateOverallRisk(risks)
         overallRisk == risks[overall]
         paymentMethod == determinePaymentMethod(overallRisk.riskLevel)
     IN ets' = [ets EXCEPT !.transaction = transactionSafety,
                           !.nulls = IF Unavailable(ets.chain, ets.apiKey, http)
                                     THEN @ \cup {"transaction"} ELSE @,
                           !.decision = Decision(paymentMethod # "blocked", overallRisk,
                                                 paymentMethod = "escrow", paymentMethod,
                                                 overall),
                           !.pc = "done"]
  /\ UNCHANGED <<assessment, probe, listing>>
  /\ UNCHANGED nonRiskVars

(***************************************************************************)
(* Product listing.  Fees are kept in thousandths: baseFee 0.01 is 10, and *)
(* the multipliers are kept in tenths.                                     *)
(***************************************************************************)

\* baseFee = 0.01, in thousandths
baseFee == 10

\* The riskMultiplier table, in tenths; it has the four levels as its keys
riskMultiplier == [low |-> 10, medium |-> 15, high |-> 20, critical |-> 0]

\* calculateListingFees: `riskMultiplier[level] || 1.5` replaces a missing
\* multiplier and a multiplier of 0 alike; basic = baseFee * multiplier
calculateListingFees(riskLevel) ==
  LET multiplier == IF riskLevel \notin DOMAIN riskMultiplier THEN 15
                    ELSE IF riskMultiplier[riskLevel] = 0 THEN 15
                    ELSE riskMultiplier[riskLevel]
  IN [basic |-> (baseFee * multiplier) \div 10,
      escrowRequired |-> riskLevel # "low",
      securityDeposit |-> IF riskLevel = "high" THEN 100 ELSE 0]

\* reputation.successRate, in percent
SuccessRates == {80, 95, 96, 100}

\* getExistingVendorReputation: successRate 1.0
getExistingVendorReputation == [successRate |-> 100]

determineVerificationStatus(riskLevel, successRate) ==
  CASE riskLevel = "critical" -> "flagged"
    [] riskLevel = "high" -> "pending"
    [] riskLevel = "low" /\ successRate > 95 -> "verified"
    [] OTHER -> "unverified"

\* enhancedProductListing: the vendor's wallet is checked on ethereum, and
\* the fees follow from the risk level of that check
enhancedProductListing(apiKey, http) ==
  /\ ets.pc = "idle"
  /\ LET walletSafety == checkWalletSafety("ethereum", apiKey, http)
         verificationStatus == determineVerificationStatus(
                                 walletSafety.riskLevel,
                                 getExistingVendorReputation.successRate)
     IN listing' = [riskLevel |-> walletSafety.riskLevel,
                    isApproved |-> walletSafety.riskLevel # "critical"
                                   /\ verificationStatus # "flagged",
                    listingFees |-> calculateListingFees(walletSafety.riskLevel)]
  /\ assessment' = NoAssessment
  /\ probe' = NoProbe
  /\ UNCHANGED ets
  /\ UNCHANGED nonRiskVars

\* The caller has the decision; the next call starts afresh
etsReturn ==
  /\ ets.pc = "done"
  /\ ets' = EtsIdle
  /\ UNCHANGED <<assessment, probe, listing>>
  /\ UNCHANGED nonRiskVars

----------------------------------------------------------------------------
(***************************************************************************)
(* ChainConnector: BlockchainService.  One connector instance and the      *)
(* static providerCache it shares with every other service instance.       *)
(* A provider instance is the index of its entry in `instances`; 0 is no   *)
(* provider.  The asynchronous methods are split at their awaits (the      *)
(* liveness probes), whose outcome the network decides.                    *)
(***************************************************************************)
Urls == {"u1", "u2"}

\* ProviderConfig: chainId is optional (hasChainId = FALSE when it is left out)
Configs ==
  [rpcUrl : Urls, hasChainId : {TRUE}, chainId : {1}]
  \cup [rpcUrl : {"u1"}, hasChainId : {TRUE}, chainId : {0}]
  \cup [rpcUrl : {"u1"}, hasChainId : {FALSE}, chainId : {0}]

\* `${config.rpcUrl}-${config.chainId || 'default'}`: a chain id that is left
\* out and a chain id of 0 both give 'default', written 0 here
cacheKey(config) ==
  <<config.rpcUrl, IF config.hasChainId /\ config.chainId # 0 THEN config.chainId ELSE 0>>

CacheKeys == {cacheKey(c) : c \in Configs}

\* The configuration the connector is constructed with
InitialConfig == [rpcUrl |-> "u1", hasChainId |-> TRUE, chainId |-> 1]

\* initializeProvider without the cache lookup: every call constructs and caches
initializeProvider_noLookup(config, ok) ==
  IF ~ok
  THEN [thrown |-> TRUE, provider |-> 0, cache |-> providerCache, instances |-> instances]
  ELSE [thrown |-> FALSE, provider |-> Len(instances) + 1,
        cache |-> [providerCache EXCEPT ![cacheKey(config)] = Len(instances) + 1],
        instances |-> Append(instances, cacheKey(config))]

\* initializeProvider: the cached provider of the key if there is one,
\* otherwise a new JsonRpcProvider, cached under the key; `ok` is whether the
\* constructor returns (it throws otherwise, and nothing is cached).  The
\* method is synchronous: lookup and insertion are one step.
initializeProvider(config, ok) ==
  IF providerCache[cacheKey(config)] # 0
  THEN [thrown |-> FALSE, provider |-> providerCache[cacheKey(config)],
        cache |-> providerCache, instances |-> instances]
  ELSE IF ~ok
  THEN [thrown |-> TRUE, provider |-> 0, cache |-> providerCache, instances |-> instances]
  ELSE [thrown |-> FALSE, provider |-> Len(instances) + 1,
        cache |-> [providerCache EXCEPT ![cacheKey(config)] = Len(instances) + 1],
        instances |-> Append(instances, cacheKey(config))]

CallIds == 1..MaxCalls

NoCall ==
  [op |-> "none", pc |-> "idle", config |-> InitialConfig, provider |-> 0,
   results |-> <<>>, inits |-> 0, touched |-> {}, outcome |-> "none"]

\* The slot a new call is recorded in
Free(c) == calls[c].pc = "idle" /\ \A d \in CallIds : d < c => calls[d].pc # "idle"

\* The record of a call that has completed
Finished(call, outcome, returned) ==
  [call EXCEPT !.pc = "done", !.outcome = outcome, !.provider = returned]

\* new BlockchainService(config, ...) of another service instance: its
\* constructor calls initializeProvider on the shared cache
construct(config, ok) ==
  /\ LET init == initializeProvider(config, ok) IN
       /\ providerCache' = init.cache
       /\ instances' = init.instances
       /\ done' = [NoCall EXCEPT !.op = "construct", !.pc = "done", !.config = config,
                                 !.provider = init.provider,
                                 !.outcome = IF init.thrown THEN "initFailed" ELSE "ok"]
  /\ UNCHANGED <<providerConfig, provider, wallet, contract, calls>>
  /\ UNCHANGED nonConnVars

\* switchProvider up to its await: the candidate is initialised (and cached)
\* and its probe is sent.  A throwing constructor ends the call in the catch.
switchProviderStart(c, newConfig, ok) ==
  /\ Free(c)
  /\ LET init == initializeProvider(newConfig, ok)
         touched == IF init.cache # providerCache THEN {"providerCache"} ELSE {}
     IN /\ providerCache' = init.cache
        /\ instances' = init.instances
        /\ IF init.thrown
           THEN /\ done' = [NoCall EXCEPT !.op = "switchProvider", !.pc = "done",
                                           !.config = newConfig, !.touched = touched,
                                           !.outcome = "switchFailed"]
                /\ UNCHANGED calls
           ELSE /\ calls' = [calls EXCEPT ![c] =
                               [NoCall EXCEPT !.op = "switchProvider", !.pc = "probing",
                                              !.config = newConfig,
                                              !.provider = init.provider,
                                              !.touched = touched]]
                /\ UNCHANGED done
  /\ UNCHANGED <<providerConfig, provider, wallet, contract>>
  /\ UNCHANGED nonConnVars

\* switchProvider after its await, with the contract left bound to the old
\* signer on success
switchProviderProbed_noRebind(c, up) ==
  /\ calls[c].op = "switchProvider"
  /\ calls[c].pc = "probing"
  /\ IF ~up
     THEN /\ done' = Finished(calls[c], "switchFailed", 0)
          /\ UNCHANGED <<providerConfig, provider, wallet, contract>>
     ELSE /\ providerConfig' = calls[c].config
          /\ provider' = calls[c].provider
          /\ wallet' = calls[c].provider
          /\ contract' = contract
          /\ done' = [Finished(calls[c], "ok", calls[c].provider) EXCEPT
                        !.touched = @ \cup {"providerConfig", "provider", "wallet"}]
  /\ calls' = [calls EXCEPT ![c] = NoCall]
  /\ UNCHANGED <<providerCache, instances>>
  /\ UNCHANGED nonConnVars

\* switchProvider after its await: a candidate that did not answer makes the
\* call throw; otherwise configuration, provider, signer and contract are
\* replaced in one synchronous stretch
switchProviderProbed(c, up) ==
  /\ calls[c].op = "switchProvider"
  /\ calls[c].pc = "probing"
  /\ IF ~up
     THEN /\ done' = Finished(calls[c], "switchFailed", 0)
          /\ UNCHANGED <<providerConfig, provider, wallet, contract>>
     ELSE /\ providerConfig' = calls[c].config
          /\ provider' = calls[c].provider
          /\ wallet' = calls[c].provider
          /\ contract' = calls[c].provider
          /\ done' = [Finished(calls[c], "ok", calls[c].provider) EXCEPT
                        !.touched = @ \cup {"providerConfig", "provider", "wallet", "contract"}]
  /\ calls' = [calls EXCEPT ![c] = NoCall]
  /\ UNCHANGED <<providerCache, instances>>
  /\ UNCHANGED nonConnVars

\* getProvider up to its first await: testConnection probes this.provider
getProviderStart(c) ==
  /\ Free(c)
  /\ calls' = [calls EXCEPT ![c] = [NoCall EXCEPT !.op = "getProvider", !.pc = "probe1",
                                                   !.provider = provider]]
  /\ UNCHANGED <<providerConfig, provider, wallet, contract, providerCache, instances, done>>
  /\ UNCHANGED nonConnVars

\* getProvider after the first probe, probing again whenever a probe fails
getProviderProbed_loop(c, up, ok) ==
  /\ calls[c].op = "getProvider"
  /\ calls[c].pc = "probe1"
  /\ LET call == [calls[c] EXCEPT !.results = Append(@, up)] IN
       IF up
       THEN /\ done' = Finished(call, "ok", provider)
            /\ calls' = [calls EXCEPT ![c] = NoCall]
            /\ UNCHANGED <<provider, providerCache, instances>>
       ELSE LET init == initializeProvider(providerConfig, ok) IN
              /\ providerCache' = init.cache
              /\ instances' = init.instances
              /\ IF init.thrown
                 THEN /\ done' = Finished([call EXCEPT !.inits = @ + 1], "unavailable", 0)
                      /\ calls' = [calls EXCEPT ![c] = NoCall]
                      /\ UNCHANGED provider
                 ELSE /\ provider' = init.provider
                      /\ calls' = [calls EXCEPT ![c] =
                                     [call EXCEPT !.inits = @ + 1, !.pc = "probe1",
                                                  !.provider = init.provider]]
                      /\ UNCHANGED done
  /\ UNCHANGED <<providerConfig, wallet, contract>>
  /\ UNCHANGED nonConnVars

\* getProvider after the first probe: a live provider is returned; otherwise
\* this.provider is initialised again from this.providerConfig and probed
\* once more (an initialisation that throws is caught, and the call throws)
getProviderProbed(c, up, ok) ==
  /\ calls[c].op = "getProvider"
  /\ calls[c].pc = "probe1"
  /\ LET call == [calls[c] EXCEPT !.results = Append(@, up)] IN
       IF up
       THEN /\ done' = Finished(call, "ok", provider)
            /\ calls' = [calls EXCEPT ![c] = NoCall]
            /\ UNCHANGED <<provider, providerCache, instances>>
       ELSE LET init == initializeProvider(providerConfig, ok) IN
              /\ providerCache' = init.cache
              /\ instances' = init.instances
              /\ IF init.thrown
                 THEN /\ done' = Finished([call EXCEPT !.inits = @ + 1], "unavailable", 0)
                      /\ calls' = [calls EXCEPT ![c] = NoCall]
                      /\ UNCHANGED provider
                 ELSE /\ provider' = init.provider
                      /\ calls' = [calls EXCEPT ![c] =
                                     [call EXCEPT !.inits = @ + 1, !.pc = "probe2",
                                                  !.provider = init.provider]]
                      /\ UNCHANGED done
  /\ UNCHANGED <<providerConfig, wallet, contract>>
  /\ UNCHANGED nonConnVars

\* getProvider after the second probe: return this.provider or throw
getProviderReprobed(c, up) ==
  /\ calls[c].op = "getProvider"
  /\ calls[c].pc = "probe2"
  /\ LET call == [calls[c] EXCEPT !.results = Append(@, up)] IN
       done' = IF up THEN Finished(call, "ok", provider)
               ELSE Finished(call, "unavailable", 0)
  /\ calls' = [calls EXCEPT ![c] = NoCall]
  /\ UNCHANGED <<providerConfig, provider, wallet, contract, providerCache, instances>>
  /\ UNCHANGED nonConnVars

ConnNext ==
  \/ \E config \in Configs, ok \in BOOLEAN : construct(config, ok)
  \/ \E c \in CallIds, config \in Configs, ok \in BOOLEAN : switchProviderStart(c, config, ok)
  \/ \E c \in CallIds, up \in BOOLEAN : switchProviderProbed(c, up)
  \/ \E c \in CallIds : getProviderStart(c)
  \/ \E c \in CallIds, up \in BOOLEAN, ok \in BOOLEAN : getProviderProbed(c, up, ok)
  \/ \E c \in CallIds, up \in BOOLEAN : getProviderReprobed(c, up)

----------------------------------------------------------------------------
(***************************************************************************)
(* ContractGateway: the path of a state-mutating ledger request from its   *)
(* controller through the service method to executeTransaction and back.   *)
(* `submissions` counts the calls of the contract method the request has   *)
(* made, `approvals` those of the token's approve.                         *)
(***************************************************************************)
MutatingMethods ==
  {"createEscrow", "releasePayment", "cancelEscrow", "fileDispute", "fundEscrow",
   "resolveDispute", "makePayment"}

\* The service methods that parse an amount with ethers.parseEther first
ParsesAmount == {"createEscrow", "fundEscrow", "makePayment"}

NoRequest ==
  [method |-> "none", pc |-> "idle", approvals |-> 0, submissions |-> 0,
   failed |-> FALSE, outcome |-> "none"]

\* executeTransaction entered: the contract method is called and awaited
executeTransaction(request) ==
  [request EXCEPT !.pc = "submitting", !.submissions = @ + 1]

\* A controller handler calls its service method.  parseEther throws on an
\* amount that is not a decimal number; createEscrow for an ERC-20 token
\* first has the token approve the amount.
gwRequest(c, method, amountOk, erc20) ==
  /\ gw[c].pc = "idle"
  /\ LET request == [NoRequest EXCEPT !.method = method] IN
       gw' = [gw EXCEPT ![c] =
                IF method \in ParsesAmount /\ ~amountOk
                THEN [request EXCEPT !.pc = "done", !.outcome = "error"]
                ELSE IF method = "createEscrow" /\ erc20
                THEN [request EXCEPT !.pc = "approving", !.approvals = 1]
                ELSE executeTransaction(request)]
  /\ UNCHANGED nonGatewayVars

\* tokenContract.approve returns, or throws and ends the request
gwApproved(c, ok) ==
  /\ gw[c].pc = "approving"
  /\ gw' = [gw EXCEPT ![c] =
              IF ok THEN executeTransaction(@)
              ELSE [@ EXCEPT !.pc = "done", !.outcome = "error"]]
  /\ UNCHANGED nonGatewayVars

\* executeTransaction calling the contract method once more when it throws
gwSubmitted_retry(c, ok) ==
  /\ gw[c].pc = "submitting"
  /\ gw' = [gw EXCEPT ![c] =
              IF ok THEN [@ EXCEPT !.pc = "done", !.outcome = "ok"]
              ELSE IF ~@.failed THEN [executeTransaction(@) EXCEPT !.failed = TRUE]
              ELSE [@ EXCEPT !.pc = "done", !.outcome = "error"]]
  /\ UNCHANGED nonGatewayVars

\* The contract method returns the transaction response, which the handler
\* answers with; or it throws, and executeTransaction logs and rethrows: the
\* service method and the handler pass the error on to the error middleware
gwSubmitted(c, ok) ==
  /\ gw[c].pc = "submitting"
  /\ gw' = [gw EXCEPT ![c] =
              IF ok THEN [@ EXCEPT !.pc = "done", !.outcome = "ok"]
              ELSE [@ EXCEPT !.pc = "done", !.outcome = "error", !.failed = TRUE]]
  /\ UNCHANGED nonGatewayVars

\* The response has been sent
gwRespond(c) ==
  /\ gw[c].pc = "done"
  /\ gw' = [gw EXCEPT ![c] = NoRequest]
  /\ UNCHANGED nonGatewayVars

GatewayNext ==
  \/ \E c \in CallIds, m \in MutatingMethods, amountOk \in BOOLEAN, erc20 \in BOOLEAN :
       gwRequest(c, m, amountOk, erc20)
  \/ \E c \in CallIds, ok \in BOOLEAN : gwApproved(c, ok)
  \/ \E c \in CallIds, ok \in BOOLEAN : gwSubmitted(c, ok)
  \/ \E c \in CallIds : gwRespond(c)

----------------------------------------------------------------------------
(***************************************************************************)
(* KeyVault: WalletService.  A stored value 'iv:ciphertext' is kept as the *)
(* number of its ':'-separated parts, the kind of its IV part and its      *)
(* ciphertext part.  A ciphertext the cipher produced is kept with the     *)
(* symmetric key it was produced under and with its plaintext; the         *)
(* symmetric key is derived from the concatenation                         *)
(* encryptionKey + passwordHash.                                           *)
(***************************************************************************)
\* ENCRYPTION_KEY values of the process (an unset one is replaced by a default)
MasterKeys == {"k", "kp"}

PasswordHashes == {"", "h", "ph"}

\* wallet.privateKey of ethers.Wallet.createRandom()
ValidKey == "0xkey"

\* A decrypted value that new ethers.Wallet() rejects
InvalidKey == "notakey"

\* What decrypting under another key gives when the padding happens to check
Garbage == "garbage"

\* sha256(encryptionKey + passwordHash), then scrypt: injective on the
\* concatenation, which is what the derived key stands for here
combinedKey(masterKey, passwordHash) == masterKey \o passwordHash

Ciphertext(kind, key, plain) == [kind |-> kind, key |-> key, plain |-> plain]

StoredValue(parts, iv, ct) == [parts |-> parts, iv |-> iv, ct |-> ct]

\* encryptPrivateKey: a random 16-byte IV in hex, ':' and the ciphertext in hex
encryptPrivateKey(masterKey, privateKey, passwordHash) ==
  StoredValue(2, "hex32",
              Ciphertext("cipher", combinedKey(masterKey, passwordHash), privateKey))

\* Values of a user record's encryptedPrivateKey that createWallet did not
\* write: empty, with one or three parts, with an IV of 30 hex characters or
\* of 32 characters that are not hex, with an empty or a non-hex ciphertext,
\* with a ciphertext cut short of a block boundary, and with the encryption
\* of something that is no private key
ForeignValues ==
  {StoredValue(n, "hex32", Ciphertext("cipher", combinedKey("k", "h"), ValidKey)) : n \in {0, 1, 3}}
  \cup {StoredValue(2, iv, Ciphertext("cipher", combinedKey("k", "h"), ValidKey)) : iv \in {"hex30", "nonhex32"}}
  \cup {StoredValue(2, "hex32", Ciphertext(k, "", "")) : k \in {"empty", "nonhex", "truncated"}}
  \cup {StoredValue(2, "hex32", Ciphertext("cipher", combinedKey("k", "h"), InvalidKey))}

LogEntry(at, carries) == [at |-> at, carries |-> carries]

Outcome(outcome, kind, plaintext, attempted, entries) ==
  [outcome |-> outcome, kind |-> kind, plaintext |-> plaintext,
   attempted |-> attempted, log |-> entries]

\* The catch block of decryptPrivateKey, by what was thrown in the try block
decryptCatch(thrown, attempted, entries) ==
  IF thrown = "ERR_OSSL_BAD_DECRYPT"
  THEN Outcome("error", "keyMismatch", "", attempted,
               entries \cup {LogEntry("decryptPrivateKey.badDecrypt", "lengths")})
  ELSE IF thrown \in {"Invalid format", "Invalid IV format", "Invalid encrypted data format"}
  THEN Outcome("error", "validation", "", attempted,
               entries \cup {LogEntry("decryptPrivateKey.invalid", "ciphertext")})
  ELSE Outcome("error", "other", "", attempted,
               entries \cup {LogEntry("decryptPrivateKey.error", "message")})

\* decryptPrivateKey.  padAccident: under a key other than the one used to
\* encrypt, whether the last block happens to end in a valid padding, so that
\* decipher.final() does not throw
decryptPrivateKey(masterKey, encryptedPrivateKey, passwordHash, padAccident) ==
  LET v == encryptedPrivateKey IN
    IF v.parts = 0 THEN decryptCatch("required", FALSE, {})
    ELSE IF passwordHash = "" THEN decryptCatch("Password hash is required", FALSE, {})
    ELSE IF v.parts # 2
    THEN decryptCatch("Invalid format", FALSE,
                      {LogEntry("decryptPrivateKey.format", "ciphertext")})
    ELSE IF v.iv # "hex32"
    THEN decryptCatch("Invalid IV format", FALSE,
                      {LogEntry("decryptPrivateKey.iv", "lengths")})
    ELSE IF v.ct.kind \in {"empty", "nonhex"}
    THEN decryptCatch("Invalid encrypted data format", FALSE,
                      {LogEntry("decryptPrivateKey.data", "lengths")})
    ELSE IF v.ct.kind = "truncated"
    THEN decryptCatch("ERR_OSSL_WRONG_FINAL_BLOCK_LENGTH", TRUE, {})
    ELSE IF v.ct.key = combinedKey(masterKey, passwordHash)
    THEN Outcome("ok", "none", v.ct.plain, TRUE,
                 IF v.ct.plain # ValidKey
                 THEN {LogEntry("decryptPrivateKey.formatWarning", "lengths")} ELSE {})
    ELSE IF padAccident
    THEN Outcome("ok", "none", Garbage, TRUE,
                 {LogEntry("decryptPrivateKey.formatWarning", "lengths")})
    ELSE decryptCatch("ERR_OSSL_BAD_DECRYPT", TRUE, {})

\* getWallet: a decrypted value that is no private key makes new
\* ethers.Wallet() throw, and the inner catch logs its first ten characters
\* (keyPreview): of the stored secret, or of the garbage another key gave
getWallet(masterKey, encryptedPrivateKey, passwordHash, padAccident) ==
  LET d == decryptPrivateKey(masterKey, encryptedPrivateKey, passwordHash, padAccident) IN
    IF d.outcome = "error"
    THEN IF d.kind = "keyMismatch" THEN d
         ELSE [d EXCEPT !.log = @ \cup {LogEntry("getWallet.error", "message")}]
    ELSE IF d.plaintext = ValidKey THEN d
    ELSE Outcome("error", "invalidKey", "", TRUE,
                 d.log \cup {LogEntry("getWallet.walletError",
                                      IF d.plaintext = Garbage THEN "garbage" ELSE "plaintext"),
                             LogEntry("getWallet.error", "message")})

NoVaultResult ==
  [op |-> "none", masterKey |-> "", stored |-> StoredValue(0, "hex32", Ciphertext("empty", "", "")),
   passwordHash |-> "", res |-> Outcome("none", "none", "", FALSE, {})]

VaultResult(op, stored, passwordHash, res) ==
  [op |-> op, masterKey |-> encryptionKey, stored |-> stored,
   passwordHash |-> passwordHash, res |-> res]

\* The process is started with another ENCRYPTION_KEY
WalletService(masterKey) ==
  /\ encryptionKey # masterKey
  /\ encryptionKey' = masterKey
  /\ vres' = NoVaultResult
  /\ log' = {}
  /\ UNCHANGED credentials
  /\ UNCHANGED nonVaultVars

\* createWallet: the new key is encrypted and the address is logged
createWallet(passwordHash) ==
  /\ LET encryptedPrivateKey == encryptPrivateKey(encryptionKey, ValidKey, passwordHash) IN
       /\ credentials' = credentials \cup {encryptedPrivateKey}
       /\ vres' = VaultResult("createWallet", encryptedPrivateKey, passwordHash,
                              Outcome("ok", "none", "", FALSE, {}))
  /\ log' = {LogEntry("createWallet", "address")}
  /\ UNCHANGED encryptionKey
  /\ UNCHANGED nonVaultVars

CallDecryptPrivateKey(encryptedPrivateKey, passwordHash, padAccident) ==
  /\ LET res == decryptPrivateKey(encryptionKey, encryptedPrivateKey, passwordHash,
                                  padAccident) IN
       /\ vres' = VaultResult("decryptPrivateKey", encryptedPrivateKey, passwordHash, res)
       /\ log' = res.log
  /\ UNCHANGED <<encryptionKey, credentials>>
  /\ UNCHANGED nonVaultVars

CallGetWallet(encryptedPrivateKey, passwordHash, padAccident) ==
  /\ LET res == getWallet(encryptionKey, encryptedPrivateKey, passwordHash, padAccident) IN
       /\ vres' = VaultResult("getWallet", encryptedPrivateKey, passwordHash,
                              [res EXCEPT !.plaintext = ""])
       /\ log' = res.log
  /\ UNCHANGED <<encryptionKey, credentials>>
  /\ UNCHANGED nonVaultVars

\* getWalletBalance: the balance of the wallet's address from the provider,
\* or '0.0' when there is no provider or it fails; the address is logged then
getWalletBalance(encryptedPrivateKey, passwordHash, padAccident, providerOk) ==
  /\ LET required == encryptedPrivateKey.parts = 0 \/ passwordHash = ""
         w == getWallet(encryptionKey, encryptedPrivateKey, passwordHash, padAccident)
         res == IF required
                THEN Outcome("error", "other", "", FALSE,
                             {LogEntry("getWalletBalance.error", "message")})
                ELSE IF w.outcome = "error"
                THEN [w EXCEPT !.log = @ \cup {LogEntry("getWalletBalance.error", "message")}]
                ELSE IF providerOk THEN [w EXCEPT !.plaintext = ""]
                ELSE [w EXCEPT !.plaintext = "",
                               !.log = @ \cup {LogEntry("getWalletBalance.fallback", "address")}]
     IN /\ vres' = VaultResult("getWalletBalance", encryptedPrivateKey, passwordHash, res)
        /\ log' = res.log
  /\ UNCHANGED <<encryptionKey, credentials>>
  /\ UNCHANGED nonVaultVars

VaultNext ==
  \/ \E k \in MasterKeys : WalletService(k)
  \/ \E h \in PasswordHashes : createWallet(h)
  \/ \E v \in credentials \cup ForeignValues, h \in PasswordHashes, pad \in BOOLEAN :
       CallDecryptPrivateKey(v, h, pad)
  \/ \E v \in credentials \cup ForeignValues, h \in PasswordHashes, pad \in BOOLEAN :
       CallGetWallet(v, h, pad)
  \/ \E v \in credentials \cup ForeignValues, h \in PasswordHashes, pad \in BOOLEAN,
        providerOk \in BOOLEAN :
       getWalletBalance(v, h, pad, providerOk)

----------------------------------------------------------------------------
(***************************************************************************)
(* BlockchainService.createWithFallback, split at the await of the probe.  *)
(* `trace` is the history of the candidates the call has dealt with, in    *)
(* the order it dealt with them.                                           *)
(***************************************************************************)

\* getProviderConfigs(): the NETWORKS array of the configuration, mapped to
\* provider configurations in its order
Networks ==
  UNION {[1..n -> Configs] : n \in 0..MaxCandidates}

CwfIdle ==
  [pc |-> "idle", configs |-> <<>>, keyOk |-> TRUE, i |-> 0, service |-> 0,
   trace |-> <<>>, outcome |-> "none", returned |-> [config |-> 0, provider |-> 0]]

Tried(call, result) == Append(call.trace, [index |-> call.i, result |-> result])

\* The loop moves to the next candidate, or falls out of the loop and throws
\* 'No accessible providers found'
NextCandidate(call, result) ==
  IF call.i < Len(call.configs)
  THEN [call EXCEPT !.pc = "loop", !.i = @ + 1, !.service = 0,
                    !.trace = Tried(call, result)]
  ELSE [call EXCEPT !.pc = "done", !.service = 0, !.trace = Tried(call, result),
                    !.outcome = "noProviders"]

\* Entry: the candidates are read and the loop starts at the first one.
\* keyOk is whether privateKey is one `new ethers.Wallet` accepts.
createWithFallback(networks, keyOk) ==
  /\ cwf.pc \in {"idle", "done"}
  /\ cwf' = IF networks = <<>>
            THEN [CwfIdle EXCEPT !.pc = "done", !.keyOk = keyOk, !.outcome = "noProviders"]
            ELSE [CwfIdle EXCEPT !.pc = "loop", !.configs = networks, !.keyOk = keyOk,
                                 !.i = 1]
  /\ UNCHANGED connVars
  /\ UNCHANGED nonFallbackVars

\* new BlockchainService(config, ...): initializeProvider on the shared cache,
\* then the signer; a throw of either is caught and the loop continues.
\* Otherwise testConnection is sent.
createWithFallbackConstruct(ok) ==
  /\ cwf.pc = "loop"
  /\ LET init == initializeProvider(cwf.configs[cwf.i], ok) IN
       /\ providerCache' = init.cache
       /\ instances' = init.instances
       /\ cwf' = IF init.thrown \/ ~cwf.keyOk
                 THEN NextCandidate(cwf, "threw")
                 ELSE [cwf EXCEPT !.pc = "probing", !.service = init.provider]
  /\ UNCHANGED <<providerConfig, provider, wallet, contract, calls, done>>
  /\ UNCHANGED nonFallbackVars

\* After the probe, with the service returned whatever the probe said
createWithFallbackProbed_ignoreCheck(up) ==
  /\ cwf.pc = "probing"
  /\ cwf' = [cwf EXCEPT !.pc = "done", !.outcome = "returned",
                         !.trace = Tried(cwf, IF up THEN "passed" ELSE "failed"),
                         !.returned = [config |-> cwf.i, provider |-> cwf.service]]
  /\ UNCHANGED connVars
  /\ UNCHANGED nonFallbackVars

\* After the probe: the service is returned when it is connected, otherwise
\* the loop continues
createWithFallbackProbed(up) ==
  /\ cwf.pc = "probing"
  /\ cwf' = IF up
            THEN [cwf EXCEPT !.pc = "done", !.outcome = "returned",
                             !.trace = Tried(cwf, "passed"),
                             !.returned = [config |-> cwf.i, provider |-> cwf.service]]
            ELSE NextCandidate(cwf, "failed")
  /\ UNCHANGED connVars
  /\ UNCHANGED nonFallbackVars

FallbackNext ==
  \/ \E networks \in Networks, keyOk \in BOOLEAN : createWithFallback(networks, keyOk)
  \/ \E ok \in BOOLEAN : createWithFallbackConstruct(ok)
  \/ \E up \in BOOLEAN : createWithFallbackProbed(up)

(***************************************************************************)
(* BlockchainService.getBalance, split at its awaits: the probes of        *)
(* getProvider and the balance read.  Balances are in tenths of an ether.  *)
(***************************************************************************)
Addresses == {"undefined", "a1", "a2"}

Balances == 0..MaxBalance

\* ethers.formatEther: the decimal string of a wei amount
formatEther(tenths) == ToString(tenths \div 10) \o "." \o ToString(tenths % 10)

NoBalance ==
  [pc |-> "idle", address |-> "undefined", readFailed |-> FALSE, raised |-> "none",
   returned |-> "none"]

\* The catch of getBalance: whatever was thrown inside is replaced
getBalanceCatch(call, readFailed) ==
  [call EXCEPT !.pc = "done", !.readFailed = readFailed,
               !.raised = "Failed to get wallet balance"]

\* Entry: getProvider is awaited, which sends its probe
getBalance(address) ==
  /\ bal.pc \in {"idle", "done"}
  /\ bal' = [NoBalance EXCEPT !.pc = "probing", !.address = address]
  /\ UNCHANGED connVars
  /\ UNCHANGED nonBalanceVars

\* getProvider after its probe: the provider in use when the probe passed,
\* otherwise the provider is initialised again and probed once more
getBalanceProbed(up, ok) ==
  /\ bal.pc = "probing"
  /\ IF up
     THEN /\ bal' = [bal EXCEPT !.pc = "reading"]
          /\ UNCHANGED <<provider, providerCache, instances>>
     ELSE LET init == initializeProvider(providerConfig, ok) IN
            /\ providerCache' = init.cache
            /\ instances' = init.instances
            /\ provider' = IF init.thrown THEN provider ELSE init.provider
            /\ bal' = IF init.thrown THEN getBalanceCatch(bal, FALSE)
                      ELSE [bal EXCEPT !.pc = "reprobing"]
  /\ UNCHANGED <<providerConfig, wallet, contract, calls, done>>
  /\ UNCHANGED nonBalanceVars

\* getProvider after its second probe: the provider, or its error
getBalanceReprobed(up) ==
  /\ bal.pc = "reprobing"
  /\ bal' = IF up THEN [bal EXCEPT !.pc = "reading"] ELSE getBalanceCatch(bal, FALSE)
  /\ UNCHANGED connVars
  /\ UNCHANGED nonBalanceVars

\* provider.getBalance(targetAddress) resolves with the balance, which is
\* formatted and returned, or rejects, which the catch turns into an error
getBalanceRead(readOk, balance) ==
  /\ bal.pc = "reading"
  /\ bal' = IF readOk
            THEN [bal EXCEPT !.pc = "done", !.returned = formatEther(balance)]
            ELSE getBalanceCatch(bal, TRUE)
  /\ UNCHANGED connVars
  /\ UNCHANGED nonBalanceVars

BalanceNext ==
  \/ \E address \in Addresses : getBalance(address)
  \/ \E up \in BOOLEAN, ok \in BOOLEAN : getBalanceProbed(up, ok)
  \/ \E up \in BOOLEAN : getBalanceReprobed(up)
  \/ \E readOk \in BOOLEAN, balance \in Balances : getBalanceRead(readOk, balance)

(***************************************************************************)
(* McpIntegrationService: the decision logic behind the remote transport.  *)
(* Its assessments are whatever JSON the safety server answered with, so   *)
(* their riskLevel is any string, or absent.                               *)
(***************************************************************************)
Mcp_determineVerificationStatus(riskLevel, successRate) ==
  CASE riskLevel = "critical" -> "flagged"
    [] riskLevel = "high" -> "pending"
    [] riskLevel = "low" /\ successRate > 95 -> "verified"
    [] OTHER -> "unverified"

Mcp_getRiskPriority(riskLevel) ==
  CASE riskLevel = "low" -> 1
    [] riskLevel = "medium" -> 2
    [] riskLevel = "high" -> 3
    [] riskLevel = "critical" -> 4
    [] OTHER -> 1

RECURSIVE Mcp_reduceRisk(_, _, _)
Mcp_reduceRisk(risks, i, max) ==
  IF i > Len(risks) THEN max
  ELSE Mcp_reduceRisk(risks, i + 1,
         IF Mcp_getRiskPriority(risks[i].riskLevel) > Mcp_getRiskPriority(risks[max].riskLevel)
         THEN i ELSE max)

Mcp_calculateOverallRisk(risks) == Mcp_reduceRisk(risks, 2, 1)

\* determinePaymentMethod with the default of the switch returning direct
Mcp_determinePaymentMethod_defaultDirect(riskLevel) ==
  CASE riskLevel = "critical" -> "blocked"
    [] riskLevel = "high" -> "escrow"
    [] riskLevel = "medium" -> "escrow"
    [] OTHER -> "direct"

Mcp_determinePaymentMethod(riskLevel) ==
  CASE riskLevel = "critical" -> "blocked"
    [] riskLevel = "high" -> "escrow"
    [] riskLevel = "medium" -> "escrow"
    [] riskLevel = "low" -> "direct"
    [] OTHER -> "escrow"

\* baseFee = 0.01, in thousandths
Mcp_baseFee == 10

\* The riskMultiplier table, in tenths
Mcp_riskMultiplier == [low |-> 10, medium |-> 15, high |-> 20, critical |-> 0]

Mcp_calculateListingFees(riskLevel) ==
  LET multiplier == IF riskLevel \notin DOMAIN Mcp_riskMultiplier THEN 15
                    ELSE IF Mcp_riskMultiplier[riskLevel] = 0 THEN 15
                    ELSE Mcp_riskMultiplier[riskLevel]
  IN [basic |-> (Mcp_baseFee * multiplier) \div 10,
      escrowRequired |-> riskLevel # "low",
      securityDeposit |-> IF riskLevel = "high" THEN 100 ELSE 0]

Mcp_getFallbackTransactionSafety ==
  Decision(TRUE, SafetyResult("medium", 50, <<"fallback">>), TRUE, "escrow", 0)

\* What the decision helpers of SafetyService give for three assessments and
\* a reputation
LocalHelpers(risks, successRate) ==
  [overall |-> calculateOverallRisk(risks),
   paymentMethod |-> [i \in 1..3 |-> determinePaymentMethod(risks[i].riskLevel)],
   verificationStatus |->
     [i \in 1..3 |-> determineVerificationStatus(risks[i].riskLevel, successRate)],
   listingFees |-> [i \in 1..3 |-> calculateListingFees(risks[i].riskLevel)],
   fallback |-> getFallbackTransactionSafety]

\* What the decision helpers of McpIntegrationService give for them
RemoteHelpers(risks, successRate) ==
  [overall |-> Mcp_calculateOverallRisk(risks),
   paymentMethod |-> [i \in 1..3 |-> Mcp_determinePaymentMethod(risks[i].riskLevel)],
   verificationStatus |->
     [i \in 1..3 |-> Mcp_determineVerificationStatus(risks[i].riskLevel, successRate)],
   listingFees |-> [i \in 1..3 |-> Mcp_calculateListingFees(risks[i].riskLevel)],
   fallback |-> Mcp_getFallbackTransactionSafety]

NoComparison ==
  [applied |-> FALSE, risks |-> <<NoSafety, NoSafety, NoSafety>>, successRate |-> 0,
   local |-> LocalHelpers(<<NoSafety, NoSafety, NoSafety>>, 0),
   remote |-> RemoteHelpers(<<NoSafety, NoSafety, NoSafety>>, 0)]

\* What callTool may do: reject, answer without text content, or answer with
\* the JSON text of an assessment
McpReplies ==
  {[kind |-> k, riskLevel |-> "none"] : k \in {"rejected", "empty"}}
  \cup {[kind |-> "text", riskLevel |-> l] : l \in LevelInputs}

\* JSON.parse of the text of a reply
McpParse(reply) == SafetyResult(reply.riskLevel, 50, <<"mcp">>)

McpIdle ==
  [pc |-> "idle", received |-> {}, buyer |-> NoSafety, vendor |-> NoSafety,
   transaction |-> NoSafety, failed |-> FALSE, decision |-> NoDecision]

\* The early returns and the catch: the fallback decision
McpFallback(call) ==
  [call EXCEPT !.pc = "done", !.failed = TRUE, !.decision = Mcp_getFallbackTransactionSafety]

\* Entry: without a connection or a client the fallback decision is returned;
\* otherwise Promise.all sends the two wallet checks
Mcp_etsStart(isConnected, hasClient) ==
  /\ mcp.pc = "idle"
  /\ mcp' = IF ~isConnected \/ ~hasClient THEN McpFallback(mcp)
            ELSE [mcp EXCEPT !.pc = "wallets"]
  /\ cmp' = NoComparison
  /\ UNCHANGED nonMcpVars

\* Promise.all has settled: a rejection or a reply without text ends in the
\* catch, otherwise the transaction check is sent
Mcp_etsWalletsDone(buyerResult, vendorResult) ==
  /\ mcp.pc = "wallets"
  /\ mcp' = IF buyerResult.kind # "text" \/ vendorResult.kind # "text"
            THEN McpFallback(mcp)
            ELSE [mcp EXCEPT !.pc = "transaction", !.received = {"buyer", "vendor"},
                             !.buyer = McpParse(buyerResult),
                             !.vendor = McpParse(vendorResult)]
  /\ UNCHANGED cmp
  /\ UNCHANGED nonMcpVars

\* The transaction check has settled and the decision is computed
Mcp_etsTransactionDone(transactionResult) ==
  /\ mcp.pc = "transaction"
  /\ mcp' = IF transactionResult.kind # "text"
            THEN McpFallback(mcp)
            ELSE LET transactionSafety == McpParse(transactionResult)
                     risks == <<mcp.buyer, mcp.vendor, transactionSafety>>
                     overall == Mcp_calculateOverallRisk(risks)
                     overallRisk == risks[overall]
                     paymentMethod == Mcp_determinePaymentMethod(overallRisk.riskLevel)
                 IN [mcp EXCEPT !.pc = "done", !.received = @ \cup {"transaction"},
                                !.transaction = transactionSafety,
                                !.decision = Decision(paymentMethod # "blocked", overallRisk,
                                                      paymentMethod = "escrow",
                                                      paymentMethod, overall)]
  /\ UNCHANGED cmp
  /\ UNCHANGED nonMcpVars

\* The caller has the decision; the next call starts afresh
Mcp_etsReturn ==
  /\ mcp.pc = "done"
  /\ mcp' = McpIdle
  /\ UNCHANGED cmp
  /\ UNCHANGED nonMcpVars

\* Both sets of helpers applied to the same three assessments and reputation
CallDecisionHelpers(buyer, vendor, transaction, successRate) ==
  /\ mcp.pc = "idle"
  /\ LET risks == <<SafetyResult(buyer, 50, <<"mcp">>), SafetyResult(vendor, 50, <<"mcp">>),
                    SafetyResult(transaction, 50, <<"mcp">>)>>
     IN cmp' = [applied |-> TRUE, risks |-> risks, successRate |-> successRate,
                local |-> LocalHelpers(risks, successRate),
                remote |-> RemoteHelpers(risks, successRate)]
  /\ UNCHANGED mcp
  /\ UNCHANGED nonMcpVars

McpNext ==
  \/ \E isConnected \in BOOLEAN, hasClient \in BOOLEAN : Mcp_etsStart(isConnected, hasClient)
  \/ \E b \in McpReplies, v \in McpReplies : Mcp_etsWalletsDone(b, v)
  \/ \E t \in McpReplies : Mcp_etsTransactionDone(t)
  \/ Mcp_etsReturn
  \/ \E b \in LevelInputs, v \in LevelInputs, t \in LevelInputs, rate \in SuccessRates :
       CallDecisionHelpers(b, v, t, rate)
  \/ \E k \in BOOLEAN : etsStart("undefined", k)
  \/ etsReturn

(***************************************************************************)
(* WebSocketService: the registry of connected sockets and of the sockets  *)
(* of each user.  A map is a function whose domain is the set of its keys. *)
(* Socket ids are never reused: socket n is the n-th connection.           *)
(***************************************************************************)
SocketIds == 1..MaxSockets

\* What a client may send with subscribe:user
RawEmails == {"A@x", " a@x", "b@x", " "}

\* userEmail.toLowerCase().trim()
normalizedEmail(userEmail) ==
  CASE userEmail = "A@x" -> "a@x"
    [] userEmail = " a@x" -> "a@x"
    [] userEmail = "b@x" -> "b@x"
    [] userEmail = " " -> ""

\* map.set(key, value)
MapSet(map, key, value) ==
  [k \in DOMAIN map \cup {key} |-> IF k = key THEN value ELSE map[k]]

\* map.delete(key)
MapDelete(map, key) == [k \in DOMAIN map \ {key} |-> map[k]]

\* 'connection': the socket is registered with metadata that has no userEmail
connection ==
  /\ lastSocket < MaxSockets
  /\ LET clientId == lastSocket + 1 IN
       /\ connectedClients' = connectedClients \cup {clientId}
       /\ socketMetadata' = MapSet(socketMetadata, clientId, [userEmail |-> "undefined"])
       /\ lastSocket' = clientId
  /\ UNCHANGED userSockets
  /\ UNCHANGED nonSocketVars

\* 'subscribe:user' on a connected socket: the metadata takes the normalised
\* email and the socket id joins the set of that email
subscribeUser(clientId, userEmail) ==
  /\ clientId \in connectedClients
  /\ IF clientId \in DOMAIN socketMetadata
     THEN LET email == normalizedEmail(userEmail)
              sockets == IF email \in DOMAIN userSockets THEN userSockets[email] ELSE {}
          IN /\ socketMetadata' = [socketMetadata EXCEPT ![clientId].userEmail = email]
             /\ userSockets' = MapSet(userSockets, email, sockets \cup {clientId})
     ELSE UNCHANGED <<socketMetadata, userSockets>>
  /\ UNCHANGED <<connectedClients, lastSocket>>
  /\ UNCHANGED nonSocketVars

\* 'disconnect': the socket id leaves the set of the email in its metadata,
\* when the metadata has a non-empty one, and an emptied set is dropped; then
\* the socket leaves both registries
disconnect(clientId) ==
  /\ clientId \in connectedClients
  /\ LET hasEmail == /\ clientId \in DOMAIN socketMetadata
                      /\ socketMetadata[clientId].userEmail \notin {"undefined", ""}
         email == socketMetadata[clientId].userEmail
     IN userSockets' =
          IF hasEmail /\ email \in DOMAIN userSockets
          THEN IF userSockets[email] \ {clientId} = {}
               THEN MapDelete(userSockets, email)
               ELSE [userSockets EXCEPT ![email] = @ \ {clientId}]
          ELSE userSockets
  /\ connectedClients' = connectedClients \ {clientId}
  /\ socketMetadata' = MapDelete(socketMetadata, clientId)
  /\ UNCHANGED lastSocket
  /\ UNCHANGED nonSocketVars

SocketNext ==
  \/ connection
  \/ \E clientId \in SocketIds, userEmail \in RawEmails : subscribeUser(clientId, userEmail)
  \/ \E clientId \in SocketIds : disconnect(clientId)

----------------------------------------------------------------------------
Init ==
  /\ chain = [e \in EscrowIds |-> "NONE"]
  /\ released = [e \in EscrowIds |-> {}]
  /\ milestones = [e \in EscrowIds |-> 0]
  /\ txs = <<>>
  /\ mirror = [e \in EscrowIds |-> NoDoc]
  /\ reqs = {}
  /\ wrote = {}
  /\ last = NoResult
  /\ assessment = NoAssessment
  /\ ets = EtsIdle
  /\ probe = NoProbe
  /\ listing = NoListing
  /\ providerConfig = InitialConfig
  /\ instances = <<cacheKey(InitialConfig)>>
  /\ providerCache = [k \in CacheKeys |-> IF k = cacheKey(InitialConfig) THEN 1 ELSE 0]
  /\ provider = 1
  /\ wallet = 1
  /\ contract = 1
  /\ calls = [c \in CallIds |-> NoCall]
  /\ done = NoCall
  /\ gw = [c \in CallIds |-> NoRequest]
  /\ encryptionKey = "k"
  /\ credentials = {}
  /\ vres = NoVaultResult
  /\ log = {}
  /\ cwf = CwfIdle
  /\ bal = NoBalance
  /\ mcp = McpIdle
  /\ cmp = NoComparison
  /\ connectedClients = {}
  /\ socketMetadata = <<>>
  /\ userSockets = <<>>
  /\ lastSocket = 0

\* The escrow ledger
Next ==
  \/ \E opt \in SUBSET OptionalFields, ms \in 1..MaxMilestones :
       createEscrowSubmit(opt, ms)
  \/ \E r \in reqs : createEscrowFinish(r)
  \/ \E e \in EscrowIds, idx \in 0..(MaxMilestones - 1) :
       releaseEscrowSubmit(e, idx)
  \/ \E r \in reqs : releaseEscrowUpdate(r)
  \/ \E e \in EscrowIds : refundEscrowSubmit(e)
  \/ \E r \in reqs : refundEscrowUpdate(r)
  \/ \E e \in EscrowIds : disputeEscrowSubmit(e)
  \/ \E r \in reqs : disputeEscrowUpdate(r)
  \/ \E e \in EscrowIds : getEscrow(e)
  \/ \E e \in EscrowIds, w \in Winners : resolveDispute(e, w)
  \/ \E h \in 1..MaxTx, s \in StatusInputs : updateTransactionStatus(h, s)
  \/ \E h \in 1..MaxTx : mine(h)
  \/ \E e \in EscrowIds : chainFund(e)
  \/ \E e \in EscrowIds : chainExpire(e)

Spec == Init /\ [][Next]_vars

\* The risk aggregator
RiskNext ==
  \/ \E c \in Chains, k \in BOOLEAN, h \in HttpOutcomes : CallCheckWalletSafety(c, k, h)
  \/ \E k \in BOOLEAN, h \in HttpOutcomes : CallCheckContractSafety(k, h)
  \/ \E k \in BOOLEAN, h \in HttpOutcomes : CallCheckUrlSafety(k, h)
  \/ \E c \in Chains \cup {"undefined"}, k \in BOOLEAN, h \in HttpOutcomes :
       CallCheckTransactionSafety(c, k, h)
  \/ \E l \in LevelInputs : CallDeterminePaymentMethod(l)
  \/ \E c \in Chains \cup {"undefined"}, k \in BOOLEAN : etsStart(c, k)
  \/ \E who \in {"buyer", "vendor"}, h \in HttpOutcomes : etsWalletDone(who, h)
  \/ \E h \in HttpOutcomes : etsTransactionDone(h)
  \/ \E k \in BOOLEAN, h \in HttpOutcomes : enhancedProductListing(k, h)
  \/ etsReturn

RiskSpec == Init /\ [][RiskNext]_vars

\* The chain connector
ConnSpec == Init /\ [][ConnNext]_vars

\* The contract gateway
GatewaySpec == Init /\ [][GatewayNext]_vars

\* The key vault
VaultSpec == Init /\ [][VaultNext]_vars

\* Connector creation with fallback
FallbackSpec == Init /\ [][FallbackNext]_vars

\* The balance query of the connector
BalanceSpec == Init /\ [][BalanceNext]_vars

\* The decision logic behind the remote transport, next to the local one
McpSpec == Init /\ [][McpNext]_vars

\* The socket registry
SocketSpec == Init /\ [][SocketNext]_vars

----------------------------------------------------------------------------
(***************************************************************************)
(* Properties of the escrow ledger (checked under Spec)                    *)
(***************************************************************************)

\* Edges of the mirror status the specification allows
AllowedEdges ==
  {<<"pending", "funded">>, <<"pending", "cancelled">>,
   <<"funded", "completed">>, <<"funded", "disputed">>,
   <<"funded", "cancelled">>, <<"funded", "expired">>,
   <<"disputed", "resolved">>}

TimelineFollowsEdges ==
  \A e \in EscrowIds :
    \A i \in 1..(Len(mirror[e].timeline) - 1) :
      mirror[e].timeline[i] # mirror[e].timeline[i + 1]
        => <<mirror[e].timeline[i], mirror[e].timeline[i + 1]>> \in AllowedEdges

StatusFollowsEdges ==
  \A e \in EscrowIds :
    (mirror[e] # NoDoc /\ mirror'[e].status # mirror[e].status)
      => <<mirror[e].status, mirror'[e].status>> \in AllowedEdges

\* C1: every change of a mirror's status follows an edge of the state machine
\* pending -> {funded, cancelled}, funded -> {completed, disputed, cancelled,
\* expired}, disputed -> resolved, and no two consecutive timeline entries
\* skip a state.
C1_MirrorFollowsStateMachine == []TimelineFollowsEdges /\ [][StatusFollowsEdges]_vars

\* C2: release, refund and dispute write the mirror only after their on-chain
\* call has succeeded on chain: every transaction whose handler has updated a
\* mirror is mined successfully, none is pending or reverted.
C2_MirrorWrittenAfterChainSuccess ==
  \A h \in wrote : txs[h].st = "success"

\* The revert case of C2 is reachable: a mirror was updated for a transaction
\* that the chain then reverted.
C2_RevertedButWritten ==
  \E h \in wrote : txs[h].st = "reverted"

ImpliedByWinner(winner) == IF winner = "seller" THEN "completed" ELSE "cancelled"

\* C3: once resolveDispute(escrowId, winner) has succeeded on chain, the mirror
\* of that escrow is completed when the seller won and cancelled when the buyer
\* won.
C3_ResolveSetsTerminalStatus ==
  \A h \in 1..Len(txs) :
    (txs[h].method = "resolveDispute" /\ txs[h].st = "success"
       /\ mirror[txs[h].e] # NoDoc)
      => mirror[txs[h].e].status = ImpliedByWinner(txs[h].arg)

\* Mirror status that says the same as an on-chain status
MirrorOf(chainStatus) ==
  CASE chainStatus = "CREATED" -> "pending"
    [] chainStatus = "FUNDED" -> "funded"
    [] chainStatus = "COMPLETED" -> "completed"
    [] chainStatus = "DISPUTED" -> "disputed"
    [] chainStatus = "CANCELLED" -> "cancelled"
    [] chainStatus = "EXPIRED" -> "expired"
    [] OTHER -> "none"

\* C4: right after getEscrow(escrowId) has read the on-chain record, the mirror
\* of that escrow carries the status that was read.
C4_ReadReconcilesMirror ==
  (last.op = "getEscrow" /\ mirror[last.e] # NoDoc)
    => mirror[last.e].status = MirrorOf(last.read)

\* C5: when createEscrow finishes on a mined creation, a mirror with its
\* transaction id exists if and only if the receipt carried a parsable
\* EscrowCreated event with a positive id; then the mirror is that escrow's,
\* pending, with one timeline entry; otherwise the handler ended with the
\* id-extraction error.
C5_CreatePersistsIffEventId ==
  (last.op = "createEscrow" /\ last.tx # 0 /\ txs[last.tx].st = "success")
    => LET t == txs[last.tx]
           persisted == \E e \in EscrowIds : mirror[e].transactionId = last.tx
       IN /\ persisted <=> (t.receipt = "event")
          /\ t.receipt = "event"
               => mirror[t.e] = [transactionId |-> last.tx, status |-> "pending",
                                 timeline |-> <<"pending">>]
          /\ t.receipt # "event" => last.outcome = "idExtractionError"

\* Lifecycle handlers suspended between their on-chain call and their mirror
\* update
Lifecycle == {r \in reqs : r.op \in {"releaseEscrow", "refundEscrow", "disputeEscrow"}}

\* C23: lifecycle operations on one escrow id are serialized: while one
\* operation has issued its on-chain call and not yet completed its mirror
\* update, no other operation on the same id has issued its on-chain call.
C23_LifecycleSerializedPerId ==
  \A r1 \in Lifecycle, r2 \in Lifecycle : (r1 # r2) => (r1.e # r2.e)

\* C25: when createEscrow finishes after it recovered a positive escrow id
\* from the receipt, the mirror of that escrow exists, whichever optional
\* fields the accepted request carried.
C25_AcceptedCreateLeavesMirror ==
  (last.op = "createEscrow" /\ last.e \in EscrowIds) => mirror[last.e] # NoDoc

\* Every release submitted for the escrow has been mined successfully
ReleasesSettled(e) ==
  \A h \in 1..Len(txs) :
    (txs[h].method = "releasePayment" /\ txs[h].e = e) => txs[h].st = "success"

\* C27: for an escrow with several milestones, a release whose on-chain call
\* has been mined leaves the mirror completed only when every milestone of
\* the escrow has been released.
C27_CompletedOnlyWhenAllReleased ==
  (/\ last.op = "releaseEscrow" /\ last.outcome = "ok"
   /\ milestones[last.e] > 1
   /\ ReleasesSettled(last.e)
   /\ mirror[last.e].status = "completed")
    => released[last.e] = 0..(milestones[last.e] - 1)

LastEntryIsStatus ==
  \A e \in EscrowIds :
    mirror[e] # NoDoc => mirror[e].timeline[Len(mirror[e].timeline)] = mirror[e].status

TimelineKept ==
  \A e \in EscrowIds :
    mirror[e] # NoDoc =>
      /\ Len(mirror'[e].timeline) >= Len(mirror[e].timeline)
      /\ SubSeq(mirror'[e].timeline, 1, Len(mirror[e].timeline)) = mirror[e].timeline

\* C28: after any interleaving of create, release, refund, dispute and
\* status-update operations, the last timeline entry of a mirror carries the
\* mirror's current status, and every operation keeps the entries that were
\* there, in their order.
C28_TimelineTracksStatus == []LastEntryIsStatus /\ [][TimelineKept]_vars

----------------------------------------------------------------------------
(***************************************************************************)
(* Properties of the risk aggregator (checked under RiskSpec)              *)
(***************************************************************************)

\* C6: a transaction safety decision made while any of its risk-signal calls
\* came back empty (error, timeout, no credentials, null) is never direct.
C6_FailedSignalNeverDirect ==
  (ets.pc = "done" /\ ets.nulls # {}) => ets.decision.paymentMethod # "direct"

\* C7: when the provider is unavailable, checkWalletSafety returns the neutral
\* assessment score 50, medium, providers ["fallback"].
C7_UnavailableGivesFallback ==
  (assessment.fn = "checkWalletSafety" /\ assessment.unavailable)
    => assessment.res = [riskLevel |-> "medium", score |-> 50, providers |-> <<"fallback">>]

\* The payment method the specification gives each risk level
MethodTable ==
  [l \in LevelInputs |->
     IF l = "critical" THEN "blocked"
     ELSE IF l = "low" THEN "direct"
     ELSE "escrow"]

\* C8: determinePaymentMethod maps critical to blocked, high and medium to
\* escrow, low to direct and anything else to escrow; every decision has
\* isApproved = (paymentMethod # blocked) and requiresEscrow = (paymentMethod
\* = escrow), the fallback decision included.
C8_PaymentMethodTable ==
  /\ probe # NoProbe => probe.paymentMethod = MethodTable[probe.riskLevel]
  /\ ets.pc = "done" =>
       /\ ets.decision.isApproved = (ets.decision.paymentMethod # "blocked")
       /\ ets.decision.requiresEscrow = (ets.decision.paymentMethod = "escrow")
       /\ ets.decision.paymentMethod = MethodTable[ets.decision.safetyData.riskLevel]

\* A decision that blocks a critical transfer
C8_Witness ==
  /\ ets.pc = "done"
  /\ ets.decision.safetyData.riskLevel = "critical"
  /\ ets.decision.paymentMethod = "blocked"
  /\ ~ets.decision.isApproved

\* low < medium < high < critical
Rank(l) == CHOOSE n \in 1..4 : <<"low", "medium", "high", "critical">>[n] = l

\* C9: the overall assessment is, of buyer, vendor and transaction in that
\* order, the first one whose risk level is the highest of the three; buyer
\* low, vendor critical, transaction low gives critical and blocked.
C9_OverallIsFirstHighest ==
  (ets.pc = "done" /\ ets.decision.overall # 0) =>
    LET risks == <<ets.buyer, ets.vendor, ets.transaction>>
        i == ets.decision.overall
    IN /\ ets.decision.safetyData = risks[i]
       /\ \A j \in 1..3 : Rank(risks[j].riskLevel) <= Rank(risks[i].riskLevel)
       /\ \A j \in 1..(i - 1) : Rank(risks[j].riskLevel) < Rank(risks[i].riskLevel)
       /\ (ets.buyer.riskLevel = "low" /\ ets.vendor.riskLevel = "critical"
             /\ ets.transaction.riskLevel = "low")
            => (ets.decision.safetyData.riskLevel = "critical"
                  /\ ets.decision.paymentMethod = "blocked")

\* buyer low, vendor critical, transaction low, decided
C9_Witness ==
  /\ ets.pc = "done"
  /\ ets.buyer.riskLevel = "low"
  /\ ets.vendor.riskLevel = "critical"
  /\ ets.transaction.riskLevel = "low"
  /\ ets.decision.overall = 2

\* A tie for the highest level between vendor and transaction, decided
C9_TieWitness ==
  /\ ets.pc = "done"
  /\ ets.buyer.riskLevel = "low"
  /\ ets.vendor.riskLevel = "high"
  /\ ets.transaction.riskLevel = "high"
  /\ ets.vendor # ets.transaction
  /\ ets.decision.safetyData = ets.vendor

\* C10: every assessment a safety check returns has its score in [0,100] and
\* the risk level its score maps to (>= 80 low, >= 60 medium, >= 30 high, else
\* critical).
C10_ScoreClampedLevelFromScore ==
  assessment # NoAssessment =>
    /\ assessment.res.score \in 0..100
    /\ assessment.res.riskLevel =
         (IF assessment.res.score >= 80 THEN "low"
          ELSE IF assessment.res.score >= 60 THEN "medium"
          ELSE IF assessment.res.score >= 30 THEN "high"
          ELSE "critical")

\* The deduction table of the specification
DeductionTable == [low |-> 0, medium |-> 20, high |-> 50, critical |-> 80]

Clamp(n) == IF n < 0 THEN 0 ELSE IF n > 100 THEN 100 ELSE n

LevelOfScore(score) ==
  IF score >= 80 THEN "low"
  ELSE IF score >= 60 THEN "medium"
  ELSE IF score >= 30 THEN "high"
  ELSE "critical"

\* A provider response as DDxyzThreatRisk declares it: flaggedReasons a
\* list, riskLevel absent or one of the four levels
WellTyped(d) == d # Null /\ d.reasonsOk /\ d.riskLevel \in Levels \cup {"none"}

C11_ClampWitness ==
  /\ assessment.fn = "checkWalletSafety"
  /\ WellTyped(assessment.data)
  /\ assessment.data.hasScore
  /\ assessment.data.riskScore > 100
  /\ assessment.res.score = 0

\* The multipliers of the specification, in tenths
MultiplierTable == [low |-> 10, medium |-> 15, high |-> 20, critical |-> 0]

\* C20: for every vendor risk level, the listing fee is the base fee times the
\* multiplier of that level (low 1.0, medium 1.5, high 2.0, critical 0), and the
\* security deposit is non-zero exactly when the level is high.
C20_ListingFeeTable ==
  listing.riskLevel \in Levels =>
    /\ 10 * listing.listingFees.basic = baseFee * MultiplierTable[listing.riskLevel]
    /\ (listing.listingFees.securityDeposit # 0) <=> (listing.riskLevel = "high")

----------------------------------------------------------------------------
(***************************************************************************)
(* Properties of the chain connector (checked under ConnSpec)              *)
(***************************************************************************)

\* C12: switchProvider checks the candidate's liveness before it mutates any
\* state: a switchProvider call that fails has written none of the endpoint
\* configuration, the provider, the signer, the bound contract and the shared
\* connection cache.
C12_FailedSwitchMutatesNothing ==
  (done.op = "switchProvider" /\ done.outcome = "switchFailed") => done.touched = {}

\* C13: wherever another asynchronous caller can run, the endpoint
\* configuration, the provider, the signer and the bound contract refer to the
\* same endpoint: the signer is bound to the provider in use, the contract to
\* that signer, and the provider is the one of the configured endpoint.
C13_NoHalfSwappedTriple ==
  /\ provider \in 1..Len(instances)
  /\ wallet = provider
  /\ contract = wallet
  /\ instances[provider] = cacheKey(providerConfig)

\* A switch to another endpoint has completed while a getProvider call that
\* began before it is still waiting for a probe
C13_Witness ==
  /\ done.op = "switchProvider"
  /\ done.outcome = "ok"
  /\ providerConfig.rpcUrl # InitialConfig.rpcUrl
  /\ \E c \in CallIds : /\ calls[c].op = "getProvider"
                         /\ calls[c].provider # provider

\* C14: getProvider returns the current connection when its probe passes;
\* when it fails there is exactly one re-initialisation and one further probe,
\* the connection is returned if that probe passes, and the call raises the
\* provider-unavailable error otherwise; no call probes more than twice.
C14_OneReconnectAttempt ==
  /\ \A c \in CallIds :
       calls[c].op = "getProvider" =>
         /\ Len(calls[c].results) <= 1
         /\ calls[c].inits = Len(calls[c].results)
  /\ done.op = "getProvider" =>
       /\ Len(done.results) \in 1..2
       /\ done.results[1] => (done.results = <<TRUE>> /\ done.inits = 0)
       /\ ~done.results[1] => done.inits = 1
       /\ done.outcome = (IF done.results[Len(done.results)] THEN "ok" ELSE "unavailable")
       /\ done.outcome = "ok" => done.provider = provider

\* The first probe failed, the second passed, and the call returned
C14_Witness ==
  /\ done.op = "getProvider"
  /\ done.results = <<FALSE, TRUE>>
  /\ done.outcome = "ok"
  /\ done.provider = provider

\* The provider instance that was created first for a key
FirstFor(k) ==
  CHOOSE i \in 1..Len(instances) :
    instances[i] = k /\ \A j \in 1..(i - 1) : instances[j] # k

\* C15: the connection cache holds at most one connection per (endpoint URL,
\* chain id) key, and every request for a key returns the instance the first
\* request for that key created.
C15_OneConnectionPerKey ==
  /\ \A i, j \in 1..Len(instances) : instances[i] = instances[j] => i = j
  /\ \A k \in CacheKeys :
       providerCache[k] # 0 =>
         providerCache[k] \in 1..Len(instances) /\ instances[providerCache[k]] = k
  /\ (done.op \in {"construct", "switchProvider"} /\ done.provider # 0) =>
       done.provider = FirstFor(cacheKey(done.config))

\* A request was answered from the cache with an instance an earlier request
\* for the same key had created
C15_Witness ==
  /\ done.op = "construct"
  /\ done.outcome = "ok"
  /\ done.provider # 0
  /\ done.provider < Len(instances)
  /\ done.provider # provider

----------------------------------------------------------------------------
(***************************************************************************)
(* Properties of the contract gateway (checked under GatewaySpec)          *)
(***************************************************************************)

\* C16: every state-mutating ledger request submits its on-chain call at most
\* once: when the submission fails it is not submitted again, and the error
\* reaches the caller.
C16_MutatingCallSubmittedOnce ==
  \A c \in CallIds :
    /\ gw[c].submissions <= 1
    /\ gw[c].approvals <= 1
    /\ gw[c].failed =>
         /\ gw[c].pc = "done"
         /\ gw[c].outcome = "error"
         /\ gw[c].submissions = 1

\* A release whose submission failed has ended with the error, while
\* another request is on its way
C16_Witness ==
  \E c, d \in CallIds :
    /\ gw[c].method = "releasePayment"
    /\ gw[c].failed
    /\ gw[c].outcome = "error"
    /\ gw[c].submissions = 1
    /\ gw[d].pc = "submitting"

----------------------------------------------------------------------------
(***************************************************************************)
(* Properties of the key vault (checked under VaultSpec)                   *)
(***************************************************************************)

\* 'iv:ciphertext' with an IV of 32 hex characters and a non-empty hex ciphertext
WellFormed(v) == v.parts = 2 /\ v.iv = "hex32" /\ v.ct.kind \in {"cipher", "truncated"}

\* v was encrypted under this master key and password hash
EncryptedUnder(v, masterKey, passwordHash) ==
  v.ct.kind = "cipher" /\ v.ct.key = combinedKey(masterKey, passwordHash)

\* C17: decrypt returns a plaintext only for a well-formed value decrypted
\* with the master key and password hash it was encrypted with; a malformed
\* value always fails with the validation error before decryption is
\* attempted; another password hash or master key always fails with the
\* key-mismatch error; and no failure returns plaintext.
C17_DecryptFailsClosed ==
  vres.op = "decryptPrivateKey" =>
    LET v == vres.stored
        r == vres.res
        same == EncryptedUnder(v, vres.masterKey, vres.passwordHash)
    IN /\ r.outcome = "ok" => (WellFormed(v) /\ same /\ r.plaintext = v.ct.plain)
       /\ ~WellFormed(v) => (r.outcome = "error" /\ r.kind = "validation" /\ ~r.attempted)
       /\ (WellFormed(v) /\ v.ct.kind = "cipher" /\ ~same) =>
            (r.outcome = "error" /\ r.kind = "keyMismatch")
       /\ r.outcome = "error" => r.plaintext = ""

\* C18: for every master key and password hash, decrypting what createWallet
\* encrypted under them, with the same master key and password hash, returns
\* exactly the private key that was encrypted.
C18_DecryptInvertsEncrypt ==
  (/\ vres.op = "decryptPrivateKey"
   /\ vres.stored \in credentials
   /\ vres.stored = encryptPrivateKey(vres.masterKey, ValidKey, vres.passwordHash))
  => (vres.res.outcome = "ok" /\ vres.res.plaintext = ValidKey)

\* C19: no key vault operation writes any part of a decrypted private key to
\* the log, on the success path or on any error path.
C19_NoPlaintextInLog ==
  \A entry \in log : entry.carries # "plaintext"

----------------------------------------------------------------------------
(***************************************************************************)
(* Concurrency of the three checks of enhancedTransactionSafety (RiskSpec) *)
(***************************************************************************)

\* C24: in enhancedTransactionSafety the buyer-wallet, vendor-wallet and
\* transaction-safety checks are all issued before any of them completes: as
\* soon as one has completed, all three have been issued.
C24_ThreeChecksIssuedTogether ==
  (ets.buyer # NoSafety \/ ets.vendor # NoSafety \/ ets.transaction # NoSafety)
    => ets.issued = {"buyer", "vendor", "transaction"}

----------------------------------------------------------------------------
(***************************************************************************)
(* Properties of createWithFallback (checked under FallbackSpec)           *)
(***************************************************************************)

\* C21: createWithFallback deals with the candidates strictly in their listed
\* order, returns a connector bound to the first candidate whose liveness
\* check passes (never a later one, never one that failed its check), and
\* raises the no-provider error exactly when every candidate has failed.
C21_FirstLiveCandidate ==
  LET n == Len(cwf.trace) IN
    /\ \A k \in 1..n : cwf.trace[k].index = k
    /\ \A k \in 1..(n - 1) : cwf.trace[k].result # "passed"
    /\ cwf.outcome = "returned" =>
         /\ n >= 1 /\ cwf.trace[n].result = "passed"
         /\ cwf.returned.config = n
         /\ cwf.returned.provider = providerCache[cacheKey(cwf.configs[n])]
    /\ cwf.outcome = "noProviders" <=>
         /\ cwf.pc = "done"
         /\ n = Len(cwf.configs)
         /\ \A k \in 1..n : cwf.trace[k].result \in {"threw", "failed"}

\* The third candidate is returned after the first threw in its constructor
\* and the second failed its probe
C21_Witness ==
  /\ cwf.outcome = "returned"
  /\ Len(cwf.trace) = 3
  /\ cwf.trace[1].result = "threw"
  /\ cwf.trace[2].result = "failed"
  /\ cwf.returned.config = 3

\* Every candidate failed and the call raised
C21_AllFailedWitness ==
  /\ cwf.outcome = "noProviders"
  /\ Len(cwf.trace) = 3

----------------------------------------------------------------------------
(***************************************************************************)
(* Properties of the balance query (checked under BalanceSpec)             *)
(***************************************************************************)

\* C22: when the provider's balance read fails, the balance query returns the
\* sentinel "0.0" and raises nothing to its caller.
C22_FailedReadGivesSentinel ==
  (bal.pc = "done" /\ bal.readFailed) => (bal.returned = "0.0" /\ bal.raised = "none")

----------------------------------------------------------------------------
(***************************************************************************)
(* Properties of the remote decision logic (checked under McpSpec)         *)
(***************************************************************************)

\* C26: if any of the three assessments of enhancedTransactionSafety carries
\* a risk level outside low, medium, high, critical, the payment method of
\* the decision is not direct, whichever of the three it is.
C26_UnknownLevelNeverDirect ==
  (mcp.pc = "done" /\ \E who \in mcp.received : mcp[who].riskLevel \notin Levels)
    => mcp.decision.paymentMethod # "direct"

\* The decision the specification gives when a check cannot be completed
IsFallbackDecision(decision) ==
  /\ decision.isApproved
  /\ decision.paymentMethod = "escrow"
  /\ decision.requiresEscrow
  /\ decision.safetyData.riskLevel = "medium"
  /\ decision.safetyData.score = 50

\* C29: the decision helpers of SafetyService and of McpIntegrationService
\* (calculateOverallRisk, determinePaymentMethod, determineVerificationStatus,
\* calculateListingFees) return the same for every three assessments and every
\* reputation, and an enhancedTransactionSafety call of either service that
\* cannot be completed returns the same fallback decision: approved, escrow,
\* medium, score 50.
C29_LocalAndRemoteLogicAgree ==
  /\ cmp.applied =>
       /\ cmp.local = cmp.remote
       /\ IsFallbackDecision(cmp.local.fallback)
  /\ (mcp.pc = "done" /\ mcp.failed) => IsFallbackDecision(mcp.decision)
  /\ (ets.pc = "done" /\ ets.issued = {}) =>
       /\ IsFallbackDecision(ets.decision)
       /\ ets.decision = Mcp_getFallbackTransactionSafety

\* Both sets of helpers were applied to assessments with an unknown level in
\* the middle and a reputation at the 0.95 threshold
C29_Witness ==
  /\ cmp.applied
  /\ cmp.risks[1].riskLevel = "low"
  /\ cmp.risks[2].riskLevel = "unknown"
  /\ cmp.risks[3].riskLevel = "critical"
  /\ cmp.successRate = 95
  /\ cmp.remote.overall = 3
  /\ cmp.remote.verificationStatus[1] = "unverified"

\* Both services have returned the fallback decision of a call that could
\* not be completed
C29_FallbackWitness ==
  /\ mcp.pc = "done" /\ mcp.failed
  /\ ets.pc = "done" /\ ets.issued = {}

----------------------------------------------------------------------------
(***************************************************************************)
(* Properties of the socket registry (checked under SocketSpec)            *)
(***************************************************************************)

\* C30: after any sequence of connect, subscribe:user and disconnect events,
\* every socket id stored under a user email in userSockets is the id of a
\* connected client, and no user email maps to an empty set.
C30_UserSocketsAreConnected ==
  \A email \in DOMAIN userSockets :
    /\ userSockets[email] # {}
    /\ userSockets[email] \subseteq connectedClients

====
